---- MODULE Spec2Model ----
(***************************************************************************)
(* A model of dyl: the bytecode codec (dyl-bytecode), the stack virtual    *)
(* machine (dyl-vm) and the compiler passes (dyl-compiler).                *)
(*                                                                         *)
(* Representation of machine integers.                                     *)
(*   i32  : an integer in MinI32..MaxI32.                                  *)
(*   u16  : an integer in 0..65535.                                        *)
(*   u8   : an integer in 0..255.                                          *)
(*   u32  : a record [hi, lo] of two 16-bit halves, value hi*65536 + lo    *)
(*          (the model checker's integers stop at 2^31 - 1).               *)
(*   usize: a natural number; a negative integer n stands for the wrapped  *)
(*          value 2^64 + n, which is larger than every vector's length.    *)
(***************************************************************************)
EXTENDS Integers, Sequences, FiniteSets, TLC

VARIABLES
  overflow_checks,  \* build option: arithmetic overflow panics (debug/test) or wraps (release)
  code,             \* Interpreter.code: the resolved instruction list
  stack,            \* Interpreter.stack: the runtime stack, bottom first
  ip,               \* the instruction pointer of the running interpreter
  outcome,          \* what run() has returned so far
  last,             \* history: the instruction run last and the state it ran from
  source,           \* the instruction list handed to encode_multiple
  todo,             \* encode_multiple: the instructions still to encode
  buff,             \* the buffer encode appends to
  enc,              \* history: the instruction encoded last and the buffer before it
  phase,            \* which codec operation is in progress
  bytes,            \* the byte slice handed to the decoder
  fb_input,         \* from_bytes: input, the bytes not yet consumed
  fb_instrs,        \* from_bytes: instrs, the instructions decoded so far
  fb_idx,           \* from_bytes: idx, the byte offset of the next instruction
  decoded,          \* from_bytes: what it has returned so far
  single,           \* the result of decode_single_with_opcode
  program,          \* the Program the parser returned
  pass,             \* bytecode_from_program: the pass reached, or how it ended
  lowered,          \* what lower_ast returned: the context and the unresolved instructions
  resolved,         \* what label resolution returned: the resolved instructions
  unit              \* one node handed to the lowerer or to the type checker on its own

vm_vars == <<overflow_checks, code, stack, ip, outcome, last>>
codec_vars ==
  <<source, todo, buff, enc, phase, bytes, fb_input, fb_instrs, fb_idx, decoded, single>>
compiler_vars == <<program, pass, lowered, resolved, unit>>
vars == <<vm_vars, codec_vars, compiler_vars>>

\* ------------------------------------------------------------------------
\* i32 arithmetic
\* ------------------------------------------------------------------------
MaxI32 == 2147483647
MinI32 == -MaxI32 - 1

\* `lhs + rhs` leaves the i32 range.
AddOverflows(lhs, rhs) ==
  \/ rhs > 0 /\ lhs > MaxI32 - rhs
  \/ rhs < 0 /\ lhs < MinI32 - rhs

\* i32::wrapping_add: the sum modulo 2^32, as a two's-complement i32.
WrappingAdd(lhs, rhs) ==
  IF ~AddOverflows(lhs, rhs) THEN lhs + rhs
  ELSE IF rhs > 0 THEN ((lhs - MaxI32) - 1) + ((rhs - MaxI32) - 1)
  ELSE ((lhs + MaxI32) + 1) + ((rhs + MaxI32) + 1)

\* i32::wrapping_neg: only MinI32 has no negation, and wraps to itself.
WrappingNeg(i) == IF i = MinI32 THEN MinI32 ELSE 0 - i

\* ------------------------------------------------------------------------
\* u32 values
\* ------------------------------------------------------------------------
U16Max == 65535

\* The u32 whose value is n, for 0 <= n <= MaxI32.
U32(n) == [hi |-> n \div 65536, lo |-> n % 65536]

\* `x as usize` for a u32 below 2^31.
AsUsize(u) == u.hi * 65536 + u.lo

\* `i as u32`: the two's-complement bit pattern of an i32.
AsU32(i) ==
  IF i >= 0 THEN U32(i)
  ELSE LET j == i - MinI32 IN [hi |-> 32768 + (j \div 65536), lo |-> j % 65536]

\* `u as i32`: the i32 with the bit pattern of a u32.
AsI32(u) ==
  IF u.hi < 32768 THEN u.hi * 65536 + u.lo
  ELSE ((u.hi - 32768) * 65536 + u.lo) + MinI32

\* a * b modulo 2^16, and the part of a * b above 2^16, for 16-bit a and b.
MulLow16(a, b) == ((((a \div 256) * b) % 65536) * 256 + (a % 256) * b) % 65536
MulHigh16(a, b) ==
  LET x == (a \div 256) * b
      y == (a % 256) * b
  IN (x \div 256) + (((x % 256) * 256 + y) \div 65536)

\* i32::wrapping_mul: the product modulo 2^32, computed on the bit patterns.
WrappingMul(lhs, rhs) ==
  LET a == AsU32(lhs)
      b == AsU32(rhs)
  IN AsI32([lo |-> MulLow16(a.lo, b.lo),
            hi |-> (MulHigh16(a.lo, b.lo) + MulLow16(a.hi, b.lo)
                    + MulLow16(a.lo, b.hi)) % 65536])

\* ------------------------------------------------------------------------
\* Values (dyl-vm/src/value.rs)
\* ------------------------------------------------------------------------
Integer(n) == [t |-> "Integer", v |-> n]
InstructionPointer(u) == [t |-> "InstructionPointer", v |-> u]

Ok(s, v) == [res |-> "Ok", stack |-> s, v |-> v]
Err(e) == [res |-> "Err", err |-> e]
Panic == [res |-> "Panic"]

\* Variant: the payload of any value is taken for an integer.
try_into_integer_any(val) == [res |-> "Ok", v |-> IF val.t = "Integer" THEN val.v ELSE 0]

try_into_integer(val) ==
  IF val.t = "Integer" THEN [res |-> "Ok", v |-> val.v] ELSE Err("TypeMismatch")

try_into_instruction_pointer(val) ==
  IF val.t = "InstructionPointer" THEN [res |-> "Ok", v |-> val.v] ELSE Err("TypeMismatch")

\* ------------------------------------------------------------------------
\* The runtime stack (dyl-vm/src/interpreter.rs, struct Stack)
\* A stack is a sequence, bottom first: Rust index i is element i + 1.
\* ------------------------------------------------------------------------
Stack_new == << >>

Stack_push_integer(s, n) == Append(s, Integer(n))

Stack_push_instruction_pointer(s, idx) == Append(s, InstructionPointer(idx))

Stack_pop(s) ==
  IF s = << >> THEN Err("EmptyStack")
  ELSE Ok(SubSeq(s, 1, Len(s) - 1), s[Len(s)])

Stack_pop_integer(s) ==
  LET p == Stack_pop(s) IN
  IF p.res # "Ok" THEN p
  ELSE LET i == try_into_integer(p.v) IN
       IF i.res # "Ok" THEN i ELSE Ok(p.stack, i.v)

\* Variant: the top value is the final value whenever there is one.
Stack_full_stop_value_top(s) ==
  IF Len(s) >= 1 THEN Ok(s, s[Len(s)]) ELSE Err("FoundEmptyStack")

Stack_full_stop_value(s) ==
  IF Len(s) = 1 THEN Ok(s, s[1])
  ELSE IF Len(s) = 0 THEN Err("FoundEmptyStack")
  ELSE Err("StackNotSingleton")

\* `a - b` on usize: panics under overflow checks, wraps otherwise.
UsizeSub(a, b, checks) ==
  IF b > a /\ checks THEN Panic ELSE [res |-> "Ok", v |-> a - b]

\* Vec::get / Vec::get_mut: is there an element at idx.
Vec_has(s, idx) == idx >= 0 /\ idx < Len(s)

Stack_get_at_offset(s, idx, checks) ==
  IF s = << >> THEN Err("OutOfBoundStackAccess")
  ELSE LET i == UsizeSub(Len(s) - 1, idx, checks) IN
       IF i.res # "Ok" THEN i
       ELSE IF ~Vec_has(s, i.v) THEN Err("OutOfBoundStackAccess")
       ELSE Ok(s, s[i.v + 1])

Stack_copy_value(s, idx, checks) ==
  IF s = << >> THEN Err("OutOfBoundStackAccess")
  ELSE LET i == UsizeSub(Len(s) - 1, idx, checks) IN
       IF i.res # "Ok" THEN i
       ELSE IF ~Vec_has(s, i.v) THEN Err("OutOfBoundStackAccess")
       ELSE Ok(Append(s, s[i.v + 1]), s[i.v + 1])

Stack_get_instruction_pointer_at_offset(s, idx, checks) ==
  LET g == Stack_get_at_offset(s, idx, checks) IN
  IF g.res # "Ok" THEN g
  ELSE LET p == try_into_instruction_pointer(g.v) IN
       IF p.res # "Ok" THEN p ELSE Ok(s, p.v)

\* Vec::truncate(idx) keeps the first idx elements and does nothing when
\* idx is not below the length.
Stack_truncate(s, idx, checks) ==
  IF s = << >> THEN Err("OutOfBoundStackAccess")
  ELSE LET i == UsizeSub(Len(s), idx, checks) IN
       IF i.res # "Ok" THEN i
       ELSE IF i.v >= 0 /\ i.v < Len(s) THEN Ok(SubSeq(s, 1, i.v), i.v)
       ELSE Ok(s, i.v)

Stack_replace(s, offset, val, checks) ==
  LET i == UsizeSub(Len(s), offset, checks) IN
  IF i.res # "Ok" THEN i
  ELSE IF ~Vec_has(s, i.v) THEN Err("OutOfBoundStackAccess")
  ELSE Ok([s EXCEPT ![i.v + 1] = val], val)

\* ------------------------------------------------------------------------
\* Instructions (dyl-bytecode/src/lib.rs, operations.rs)
\* ------------------------------------------------------------------------
push_i(i) == [op |-> "PushI", arg |-> i]
add_i == [op |-> "AddI"]
f_stop == [op |-> "FStop"]
push_cpy(idx) == [op |-> "PushCopy", arg |-> idx]
call(ptr) == [op |-> "Call", arg |-> ptr]
ret(ip_offset, shrink_offset) ==
  [op |-> "Ret", shrink_offset |-> shrink_offset, ip_offset |-> ip_offset]
res_v(idx) == [op |-> "ResV", arg |-> idx]
pop_cpy(idx) == [op |-> "PopCopy", arg |-> idx]
goto(addr) == [op |-> "Goto", arg |-> addr]
cond_jmp(negative_addr, null_addr, positive_addr) ==
  [op |-> "CondJmp", negative_addr |-> negative_addr, null_addr |-> null_addr,
   positive_addr |-> positive_addr]
neg == [op |-> "Neg"]
mul == [op |-> "Mul"]
pop(count) == [op |-> "Pop", arg |-> count]

\* ------------------------------------------------------------------------
\* The wire format (dyl-bytecode/src/operations.rs, encode.rs, decode.rs)
\* A byte buffer is a sequence of integers in 0..255.
\* ------------------------------------------------------------------------
OpNames ==
  { "PushI", "AddI", "FStop", "PushCopy", "Call", "Ret", "ResV", "PopCopy", "Goto",
    "CondJmp", "Neg", "Mul", "Pop" }

\* Operation::ID, each the successor of the one before (next_id!).
Operation_ID ==
  [ PushI |-> 0, AddI |-> 1, FStop |-> 2, PushCopy |-> 3, Call |-> 4, Ret |-> 5,
    ResV |-> 6, PopCopy |-> 7, Goto |-> 8, CondJmp |-> 9, Neg |-> 10, Mul |-> 11,
    Pop |-> 12 ]

\* Variant: ret declares the size of a one-operand instruction.
Operation_SIZE_short ==
  [ PushI |-> 5, AddI |-> 1, FStop |-> 1, PushCopy |-> 3, Call |-> 5, Ret |-> 3,
    ResV |-> 3, PopCopy |-> 3, Goto |-> 5, CondJmp |-> 13, Neg |-> 1, Mul |-> 1,
    Pop |-> 3 ]

Operation_SIZE ==
  [ PushI |-> 5, AddI |-> 1, FStop |-> 1, PushCopy |-> 3, Call |-> 5, Ret |-> 5,
    ResV |-> 3, PopCopy |-> 3, Goto |-> 5, CondJmp |-> 13, Neg |-> 1, Mul |-> 1,
    Pop |-> 3 ]

DecodeOk(v, rest) == [res |-> "Ok", v |-> v, rest |-> rest]
UnexpectedEof == [res |-> "Err", err |-> "UnexpectedEof"]
UnknownOpcode(b) == [res |-> "Err", err |-> "UnknownOpcode", byte |-> b]

Rest(input, n) == SubSeq(input, n + 1, Len(input))

pump_one(input) ==
  IF Len(input) >= 1 THEN DecodeOk(input[1], Rest(input, 1)) ELSE UnexpectedEof

\* u16::from_be_bytes
pump_two(input) ==
  IF Len(input) >= 2 THEN DecodeOk(input[1] * 256 + input[2], Rest(input, 2))
  ELSE UnexpectedEof

\* Variant: the low byte first.
dump_two_le(input) == << input % 256, input \div 256 >>

\* u16::to_be_bytes
dump_two(input) == << input \div 256, input % 256 >>

\* u32::from_be_bytes
pump_four(input) ==
  IF Len(input) >= 4
  THEN DecodeOk([hi |-> input[1] * 256 + input[2], lo |-> input[3] * 256 + input[4]],
                Rest(input, 4))
  ELSE UnexpectedEof

\* Variant: the low bytes first.
dump_four_le(input) ==
  << input.lo % 256, input.lo \div 256, input.hi % 256, input.hi \div 256 >>

\* u32::to_be_bytes
dump_four(input) ==
  << input.hi \div 256, input.hi % 256, input.lo \div 256, input.lo % 256 >>

\* Operation::decode of each operation: the operands that follow the opcode.
PushI_decode(input) ==
  LET i == pump_four(input) IN
  IF i.res # "Ok" THEN i ELSE DecodeOk(push_i(AsI32(i.v)), i.rest)

AddI_decode(input) == DecodeOk(add_i, input)

FStop_decode(input) == DecodeOk(f_stop, input)

PushCopy_decode(input) ==
  LET idx == pump_two(input) IN
  IF idx.res # "Ok" THEN idx ELSE DecodeOk(push_cpy(idx.v), idx.rest)

Call_decode(input) ==
  LET idx == pump_four(input) IN
  IF idx.res # "Ok" THEN idx ELSE DecodeOk(call(idx.v), idx.rest)

Ret_decode(input) ==
  LET shrink_offset == pump_two(input) IN
  IF shrink_offset.res # "Ok" THEN shrink_offset
  ELSE LET ip_offset == pump_two(shrink_offset.rest) IN
       IF ip_offset.res # "Ok" THEN ip_offset
       ELSE DecodeOk(ret(ip_offset.v, shrink_offset.v), ip_offset.rest)

ResV_decode(input) ==
  LET offset == pump_two(input) IN
  IF offset.res # "Ok" THEN offset ELSE DecodeOk(res_v(offset.v), offset.rest)

PopCopy_decode(input) ==
  LET offset == pump_two(input) IN
  IF offset.res # "Ok" THEN offset ELSE DecodeOk(pop_cpy(offset.v), offset.rest)

Goto_decode(input) ==
  LET addr == pump_four(input) IN
  IF addr.res # "Ok" THEN addr ELSE DecodeOk(goto(addr.v), addr.rest)

CondJmp_decode(input) ==
  LET negative_addr == pump_four(input) IN
  IF negative_addr.res # "Ok" THEN negative_addr
  ELSE LET null_addr == pump_four(negative_addr.rest) IN
       IF null_addr.res # "Ok" THEN null_addr
       ELSE LET positive_addr == pump_four(null_addr.rest) IN
            IF positive_addr.res # "Ok" THEN positive_addr
            ELSE DecodeOk(cond_jmp(negative_addr.v, null_addr.v, positive_addr.v),
                          positive_addr.rest)

Neg_decode(input) == DecodeOk(neg, input)

Mul_decode(input) == DecodeOk(mul, input)

Pop_decode(input) ==
  LET idx == pump_two(input) IN
  IF idx.res # "Ok" THEN idx ELSE DecodeOk(pop(idx.v), idx.rest)

\* <T as Operation>::decode for the operation named name.
Operation_decode(name, input) ==
  CASE name = "PushI" -> PushI_decode(input)
    [] name = "AddI" -> AddI_decode(input)
    [] name = "FStop" -> FStop_decode(input)
    [] name = "PushCopy" -> PushCopy_decode(input)
    [] name = "Call" -> Call_decode(input)
    [] name = "Ret" -> Ret_decode(input)
    [] name = "ResV" -> ResV_decode(input)
    [] name = "PopCopy" -> PopCopy_decode(input)
    [] name = "Goto" -> Goto_decode(input)
    [] name = "CondJmp" -> CondJmp_decode(input)
    [] name = "Neg" -> Neg_decode(input)
    [] name = "Mul" -> Mul_decode(input)
    [] name = "Pop" -> Pop_decode(input)

\* Operation::decode_and_wrap: the instruction, its SIZE, and the tail.
decode_and_wrap(name, input) ==
  LET d == Operation_decode(name, input) IN
  IF d.res # "Ok" THEN d
  ELSE [res |-> "Ok", v |-> d.v, size |-> Operation_SIZE[name], rest |-> d.rest]

\* Operation::decode_single_with_opcode
decode_single_with_opcode(name, input) ==
  LET opcode == pump_one(input) IN
  IF opcode.res # "Ok" THEN opcode
  ELSE IF opcode.v # Operation_ID[name] THEN Err("IncorrectOpcode")
  ELSE LET instr == Operation_decode(name, opcode.rest) IN
       IF instr.res # "Ok" THEN instr
       ELSE IF instr.rest # << >> THEN Err("BytesNotConsumed")
       ELSE DecodeOk(instr.v, << >>)

\* Variant: the decoders of neg and mul stand in each other's place.
AVAILABLE_DECODERS_swapped ==
  << "PushI", "AddI", "FStop", "PushCopy", "Call", "Ret", "ResV", "PopCopy", "Goto",
     "CondJmp", "Mul", "Neg", "Pop" >>

\* The decoder table: entry b + 1 names the operation whose decode_and_wrap
\* stands at index b.
AVAILABLE_DECODERS ==
  << "PushI", "AddI", "FStop", "PushCopy", "Call", "Ret", "ResV", "PopCopy", "Goto",
     "CondJmp", "Neg", "Mul", "Pop" >>

\* Instruction::decode: read the opcode, index the decoder table by it.
Instruction_decode(input) ==
  LET op == pump_one(input) IN
  IF op.res # "Ok" THEN op
  ELSE IF op.v >= Len(AVAILABLE_DECODERS) THEN UnknownOpcode(op.v)
  ELSE decode_and_wrap(AVAILABLE_DECODERS[op.v + 1], op.rest)

\* Operation::encode of each operation: the opcode, then the operands.
PushI_encode(self, encoder) ==
  Append(encoder, Operation_ID.PushI) \o dump_four(AsU32(self.arg))

AddI_encode(self, encoder) == Append(encoder, Operation_ID.AddI)

FStop_encode(self, encoder) == Append(encoder, Operation_ID.FStop)

PushCopy_encode(self, encoder) ==
  Append(encoder, Operation_ID.PushCopy) \o dump_two(self.arg)

Call_encode(self, encoder) == Append(encoder, Operation_ID.Call) \o dump_four(self.arg)

Ret_encode(self, encoder) ==
  Append(encoder, Operation_ID.Ret) \o dump_two(self.shrink_offset)
    \o dump_two(self.ip_offset)

ResV_encode(self, encoder) == Append(encoder, Operation_ID.ResV) \o dump_two(self.arg)

PopCopy_encode(self, encoder) ==
  Append(encoder, Operation_ID.PopCopy) \o dump_two(self.arg)

Goto_encode(self, encoder) == Append(encoder, Operation_ID.Goto) \o dump_four(self.arg)

CondJmp_encode(self, encoder) ==
  Append(encoder, Operation_ID.CondJmp) \o dump_four(self.negative_addr)
    \o dump_four(self.null_addr) \o dump_four(self.positive_addr)

Neg_encode(self, encoder) == Append(encoder, Operation_ID.Neg)

Mul_encode(self, encoder) == Append(encoder, Operation_ID.Mul)

Pop_encode(self, encoder) == Append(encoder, Operation_ID.Pop) \o dump_two(self.arg)

\* Instruction::encode: one arm per variant.
Instruction_encode(self, encoder) ==
  CASE self.op = "PushI" -> PushI_encode(self, encoder)
    [] self.op = "AddI" -> AddI_encode(self, encoder)
    [] self.op = "FStop" -> FStop_encode(self, encoder)
    [] self.op = "PushCopy" -> PushCopy_encode(self, encoder)
    [] self.op = "Call" -> Call_encode(self, encoder)
    [] self.op = "Ret" -> Ret_encode(self, encoder)
    [] self.op = "ResV" -> ResV_encode(self, encoder)
    [] self.op = "PopCopy" -> PopCopy_encode(self, encoder)
    [] self.op = "Goto" -> Goto_encode(self, encoder)
    [] self.op = "CondJmp" -> CondJmp_encode(self, encoder)
    [] self.op = "Neg" -> Neg_encode(self, encoder)
    [] self.op = "Mul" -> Mul_encode(self, encoder)
    [] self.op = "Pop" -> Pop_encode(self, encoder)

\* ------------------------------------------------------------------------
\* Running one instruction (dyl-vm/src/runnable.rs)
\* A running state is [stack, ip]; a run yields Continue(state), Stop(value),
\* an error, or a panic.
\* ------------------------------------------------------------------------
continue_to_next(state) ==
  [res |-> "Continue", stack |-> state.stack, ip |-> state.ip + 1]

continue_to(state, addr) ==
  [res |-> "Continue", stack |-> state.stack, ip |-> AsUsize(addr)]

with_stack(state, s) == [stack |-> s, ip |-> state.ip]

\* Variant: push_i ends the run with its operand.
PushI_run_stops(self, state, checks) == [res |-> "Stop", v |-> Integer(self.arg)]

PushI_run(self, state, checks) ==
  continue_to_next(with_stack(state, Stack_push_integer(state.stack, self.arg)))

AddI_run(self, state, checks) ==
  LET lhs == Stack_pop_integer(state.stack) IN
  IF lhs.res # "Ok" THEN lhs
  ELSE LET rhs == Stack_pop_integer(lhs.stack) IN
       IF rhs.res # "Ok" THEN rhs
       ELSE IF checks /\ AddOverflows(lhs.v, rhs.v) THEN Panic
       ELSE continue_to_next(with_stack(state,
              Stack_push_integer(rhs.stack, WrappingAdd(lhs.v, rhs.v))))

FStop_run(self, state, checks) ==
  LET final_value == Stack_full_stop_value(state.stack) IN
  IF final_value.res # "Ok" THEN final_value
  ELSE [res |-> "Stop", v |-> final_value.v]

PushCopy_run(self, state, checks) ==
  LET c == Stack_copy_value(state.stack, self.arg, checks) IN
  IF c.res # "Ok" THEN c ELSE continue_to_next(with_stack(state, c.stack))

Call_run(self, state, checks) ==
  LET next_addr == U32(state.ip + 1) IN
  continue_to(with_stack(state, Stack_push_instruction_pointer(state.stack, next_addr)),
              self.arg)

\* Variant: the stack is truncated before the return address is read.
Ret_run_truncate_first(self, state, checks) ==
  LET t == Stack_truncate(state.stack, self.shrink_offset, checks) IN
  IF t.res # "Ok" THEN t
  ELSE LET initial_offset ==
             Stack_get_instruction_pointer_at_offset(t.stack, self.ip_offset, checks) IN
       IF initial_offset.res # "Ok" THEN initial_offset
       ELSE continue_to(with_stack(state, t.stack), initial_offset.v)

Ret_run(self, state, checks) ==
  LET initial_offset ==
        Stack_get_instruction_pointer_at_offset(state.stack, self.ip_offset, checks) IN
  IF initial_offset.res # "Ok" THEN initial_offset
  ELSE LET t == Stack_truncate(state.stack, self.shrink_offset, checks) IN
       IF t.res # "Ok" THEN t
       ELSE continue_to(with_stack(state, t.stack), initial_offset.v)

RECURSIVE PushZeros(_, _)
PushZeros(s, n) == IF n = 0 THEN s ELSE PushZeros(Stack_push_integer(s, 0), n - 1)

ResV_run(self, state, checks) ==
  continue_to_next(with_stack(state, PushZeros(state.stack, self.arg)))

PopCopy_run(self, state, checks) ==
  LET v == Stack_pop(state.stack) IN
  IF v.res # "Ok" THEN v
  ELSE LET r == Stack_replace(v.stack, self.arg, v.v, checks) IN
       IF r.res # "Ok" THEN r ELSE continue_to_next(with_stack(state, r.stack))

Goto_run(self, state, checks) == continue_to(state, self.arg)

\* Variant: the negative and the positive targets are exchanged.
CondJmp_run_swapped(self, state, checks) ==
  LET i == Stack_pop_integer(state.stack) IN
  IF i.res # "Ok" THEN i
  ELSE LET st == with_stack(state, i.stack) IN
       IF i.v < 0 THEN continue_to(st, self.positive_addr)
       ELSE IF i.v = 0 THEN continue_to(st, self.null_addr)
       ELSE continue_to(st, self.negative_addr)

CondJmp_run(self, state, checks) ==
  LET i == Stack_pop_integer(state.stack) IN
  IF i.res # "Ok" THEN i
  ELSE LET st == with_stack(state, i.stack) IN
       IF i.v < 0 THEN continue_to(st, self.negative_addr)
       ELSE IF i.v = 0 THEN continue_to(st, self.null_addr)
       ELSE continue_to(st, self.positive_addr)

Neg_run(self, state, checks) ==
  LET i == Stack_pop_integer(state.stack) IN
  IF i.res # "Ok" THEN i
  ELSE IF checks /\ i.v = MinI32 THEN Panic
  ELSE continue_to_next(with_stack(state, Stack_push_integer(i.stack, WrappingNeg(i.v))))

\* mul: a = pop, b = pop, push a * b (wrapping).
Mul_run(self, state, checks) ==
  LET lhs == Stack_pop_integer(state.stack) IN
  IF lhs.res # "Ok" THEN lhs
  ELSE LET rhs == Stack_pop_integer(lhs.stack) IN
       IF rhs.res # "Ok" THEN rhs
       ELSE continue_to_next(with_stack(state,
              Stack_push_integer(rhs.stack, WrappingMul(lhs.v, rhs.v))))

\* pop k: needs depth >= k, drops k slots.
Pop_run(self, state, checks) ==
  IF self.arg > Len(state.stack) THEN Err("OutOfBoundStackAccess")
  ELSE continue_to_next(with_stack(state,
         SubSeq(state.stack, 1, Len(state.stack) - self.arg)))

Instruction_run(self, state, checks) ==
  CASE self.op = "PushI" -> PushI_run(self, state, checks)
    [] self.op = "AddI" -> AddI_run(self, state, checks)
    [] self.op = "FStop" -> FStop_run(self, state, checks)
    [] self.op = "PushCopy" -> PushCopy_run(self, state, checks)
    [] self.op = "Call" -> Call_run(self, state, checks)
    [] self.op = "Ret" -> Ret_run(self, state, checks)
    [] self.op = "ResV" -> ResV_run(self, state, checks)
    [] self.op = "PopCopy" -> PopCopy_run(self, state, checks)
    [] self.op = "Goto" -> Goto_run(self, state, checks)
    [] self.op = "CondJmp" -> CondJmp_run(self, state, checks)
    [] self.op = "Neg" -> Neg_run(self, state, checks)
    [] self.op = "Mul" -> Mul_run(self, state, checks)
    [] self.op = "Pop" -> Pop_run(self, state, checks)

\* ------------------------------------------------------------------------
\* The interpreter (dyl-vm/src/interpreter.rs)
\* ------------------------------------------------------------------------
Running == [kind |-> "Running"]
NoInstruction == [op |-> "None"]

\* Interpreter::from_instructions: empty stack, instruction pointer 0.
Interpreter_from_instructions(instrs) ==
  /\ code = instrs
  /\ stack = Stack_new
  /\ ip = 0
  /\ outcome = Running
  /\ last = [instr |-> NoInstruction, ip |-> 0, stack |-> << >>]

\* The programs of dyl-vm/src/tests.rs.
push_i_simple == << push_i(42), f_stop >>
add_i_simple == << push_i(40), push_i(1), push_i(1), add_i, add_i, f_stop >>
function_simple ==
  << res_v(1), push_i(41), call(U32(4)), f_stop,
     push_cpy(1), push_i(1), add_i, pop_cpy(3), ret(0, 2) >>
goto_simple == << goto(U32(3)), push_i(42), f_stop, goto(U32(1)) >>
simple_if_then_else ==
  << res_v(3), push_i(0), push_i(1), call(U32(9)), push_i(-1), call(U32(9)),
     push_i(0), call(U32(9)), f_stop,
     push_cpy(2), push_cpy(2), cond_jmp(U32(12), U32(15), U32(18)),
     push_i(39), add_i, goto(U32(21)),
     push_i(2), add_i, goto(U32(21)),
     push_i(1), add_i, goto(U32(21)),
     pop_cpy(4), ret(0, 3) >>
negate_simple == << push_i(-42), neg, f_stop >>
negate_reverses == << push_i(42), neg, neg, f_stop >>
mul_to_get_hhgg == << push_i(21), push_i(2), mul, f_stop >>
typical_expr_execution ==
  << res_v(1), push_i(42), push_i(101), pop_cpy(2), pop(1), f_stop >>

TestPrograms ==
  { push_i_simple, add_i_simple, function_simple, goto_simple, simple_if_then_else,
    negate_simple, negate_reverses, mul_to_get_hhgg, typical_expr_execution }

\* Bounds of the generated programs: a prefix that fills the stack, one
\* instruction under study, and f_stop instructions to land on.
MaxPrefix == 2
MaxOff == 2
MaxStack == 8

Literals == { MinI32, -1, 0, 1, 2, MaxI32 }

\* The prefix instruction at index i: a literal, or a call of the next index,
\* which leaves InstructionPointer(i + 1) on the stack.
PrefixAt(i) == { push_i(n) : n \in Literals } \cup { call(U32(i + 1)) }

Prefixes ==
  UNION { { p \in [1..n -> UNION { PrefixAt(i) : i \in 0..(MaxPrefix - 1) }] :
              \A i \in 1..n : p[i] \in PrefixAt(i - 1) } : n \in 0..MaxPrefix }

\* The instructions studied at index at; jump targets range over the indices
\* after it, the last of which is outside the program.
Targets(at) == { U32(at + d) : d \in 1..3 }

StudiedAt(at) ==
  { add_i, mul, neg, f_stop }
  \cup { push_cpy(k) : k \in 0..MaxOff } \cup { pop_cpy(k) : k \in 0..MaxOff }
  \cup { pop(k) : k \in 0..MaxOff } \cup { res_v(k) : k \in 0..MaxOff }
  \cup { ret(o, k) : o \in 0..MaxOff, k \in 0..MaxOff }
  \cup { call(a) : a \in Targets(at) } \cup { goto(a) : a \in Targets(at) }
  \cup { cond_jmp(U32(at + 1), U32(at + 2), U32(at + 3)),
         cond_jmp(U32(at + 2), U32(at + 1), U32(at + 1)) }

GeneratedPrograms ==
  UNION { { p \o << i, f_stop, f_stop >> : i \in StudiedAt(Len(p)) } : p \in Prefixes }

VMPrograms == TestPrograms \cup GeneratedPrograms

\* Interpreter::run_single, and the loop of Interpreter::run around it: fetch
\* the instruction at ip, run it, and follow its RunStatus.  An error or a
\* panic ends run(); Stop(value) makes run() return the value.
RunSingle ==
  /\ outcome = Running
  /\ Len(stack) <= MaxStack
  /\ IF ip >= Len(code)
     THEN /\ outcome' = [kind |-> "Err", err |-> "NoInstructionAtIndex"]
          /\ last' = [instr |-> NoInstruction, ip |-> ip, stack |-> stack]
          /\ UNCHANGED <<stack, ip>>
     ELSE LET instr == code[ip + 1]
              st == Instruction_run(instr, [stack |-> stack, ip |-> ip], overflow_checks)
          IN /\ last' = [instr |-> instr, ip |-> ip, stack |-> stack]
             /\ CASE st.res = "Continue" ->
                       stack' = st.stack /\ ip' = st.ip /\ UNCHANGED outcome
                  [] st.res = "Stop" ->
                       outcome' = [kind |-> "Finished", value |-> st.v]
                       /\ UNCHANGED <<stack, ip>>
                  [] st.res = "Err" ->
                       outcome' = [kind |-> "Err", err |-> st.err]
                       /\ UNCHANGED <<stack, ip>>
                  [] st.res = "Panic" ->
                       outcome' = [kind |-> "Panic"] /\ UNCHANGED <<stack, ip>>
  /\ UNCHANGED <<overflow_checks, code>>
  /\ UNCHANGED codec_vars
  /\ UNCHANGED compiler_vars

\* The codec is idle while the interpreter is studied.
CodecIdle ==
  /\ source = << >> /\ todo = << >> /\ buff = << >> /\ bytes = << >>
  /\ fb_input = << >> /\ fb_instrs = << >> /\ fb_idx = 0
  /\ enc = [instr |-> NoInstruction, out |-> << >>]
  /\ phase = "idle"
  /\ decoded = [kind |-> "Idle"]
  /\ single = [by |-> "None", r |-> [res |-> "None"]]

\* No compilation is in progress while the interpreter or the codec is
\* studied on its own.
NothingLowered ==
  [instrs |-> << >>, labels |-> << >>, depths |-> << >>, sets |-> << >>, errors |-> 0]

NoUnit == [kind |-> "Idle"]

CompilerIdle ==
  /\ program = << >>
  /\ pass = "Idle"
  /\ lowered = NothingLowered
  /\ resolved = << >>
  /\ unit = NoUnit

InitVM ==
  /\ CodecIdle
  /\ CompilerIdle
  /\ overflow_checks \in BOOLEAN
  /\ \E instrs \in VMPrograms : Interpreter_from_instructions(instrs)

NextVM == RunSingle

SpecVM == InitVM /\ [][NextVM]_vars

\* ------------------------------------------------------------------------
\* The codec at work: encode_multiple, from_bytes, decode and
\* decode_single_with_opcode applied to bounded inputs
\* ------------------------------------------------------------------------
MaxInstrs == 2
MaxCut == 2
MaxRaw == 4

AllOnes == [hi |-> U16Max, lo |-> U16Max]
HighBit == [hi |-> 32768, lo |-> 1]

\* The instructions encoded one at a time.
CodecInstrs ==
  { push_i(42), push_i(-1), push_i(MinI32), push_i(MaxI32), push_i(16909060),
    add_i, f_stop, neg, mul,
    push_cpy(0), push_cpy(258), push_cpy(U16Max),
    call(U32(4)), call(AllOnes), call(HighBit),
    ret(0, 2), ret(258, 1), ret(1, U16Max),
    res_v(1), res_v(513), pop_cpy(3), pop_cpy(U16Max), pop(1), pop(256),
    goto(U32(3)), goto(HighBit),
    cond_jmp(U32(101), U32(69), U32(13)), cond_jmp(AllOnes, U32(0), HighBit) }

\* The instructions of the encoded lists: every operand shape and size.
ListInstrs ==
  { push_i(-2), add_i, push_cpy(258), ret(1, 2), goto(HighBit),
    cond_jmp(U32(101), U32(69), U32(13)), pop(1) }

SeqsUpTo(S, n) == UNION { [1..k -> S] : k \in 0..n }

InstrLists == SeqsUpTo(ListInstrs, MaxInstrs) \cup { << i >> : i \in CodecInstrs }

\* Raw inputs: an opcode byte, known or not, and a few operand bytes; and the
\* operands of a cond_jmp.
RawBytes == { 0, 1, 128, 255 }
RawWords == { << 0, 0, 0, 101 >>, << 255, 255, 255, 255 >>, << 128, 0, 1, 2 >> }

RawInputs ==
  { << >> }
  \cup { << b >> \o t : b \in (0..14) \cup { 255 }, t \in SeqsUpTo(RawBytes, MaxRaw) }
  \cup { << 9 >> \o n \o z \o q : n \in RawWords, z \in RawWords, q \in RawWords }

NotDecoding == [kind |-> "Idle"]
Decoding == [kind |-> "Running"]
NoResult == [by |-> "None", r |-> [res |-> "None"]]

\* The interpreter is idle while the codec is studied.
VMIdle ==
  /\ overflow_checks = FALSE
  /\ code = << >> /\ stack = << >> /\ ip = 0
  /\ outcome = [kind |-> "Idle"]
  /\ last = [instr |-> NoInstruction, ip |-> 0, stack |-> << >>]

\* encode_multiple: one turn of its loop, Instruction::encode on the next
\* instruction.
EncodeNext ==
  /\ phase = "encode"
  /\ todo # << >>
  /\ buff' = Instruction_encode(Head(todo), buff)
  /\ enc' = [instr |-> Head(todo), out |-> buff]
  /\ todo' = Tail(todo)
  /\ UNCHANGED <<source, phase, bytes, fb_input, fb_instrs, fb_idx, decoded, single>>
  /\ UNCHANGED vm_vars
  /\ UNCHANGED compiler_vars

\* The buffer encode_multiple returned, or a truncation of it, is handed to
\* the decoder.
HandOver ==
  /\ phase = "encode"
  /\ todo = << >>
  /\ \E cut \in 0..MaxCut :
       /\ cut <= Len(buff)
       /\ bytes' = SubSeq(buff, 1, Len(buff) - cut)
       /\ fb_input' = SubSeq(buff, 1, Len(buff) - cut)
  /\ fb_instrs' = << >>
  /\ fb_idx' = 0
  /\ decoded' = Decoding
  /\ phase' = "decode"
  /\ UNCHANGED <<source, todo, buff, enc, single>>
  /\ UNCHANGED vm_vars
  /\ UNCHANGED compiler_vars

\* Variant: idx counts the instructions decoded, not their bytes.
FromBytesStep_counting_instructions ==
  /\ phase = "decode"
  /\ decoded = Decoding
  /\ IF fb_input = << >>
     THEN /\ decoded' = [kind |-> "Ok"]
          /\ UNCHANGED <<fb_input, fb_instrs, fb_idx>>
     ELSE LET d == Instruction_decode(fb_input) IN
          IF d.res # "Ok"
          THEN /\ decoded' = [kind |-> "Err", err |-> d, at |-> fb_idx]
               /\ UNCHANGED <<fb_input, fb_instrs, fb_idx>>
          ELSE /\ fb_instrs' = Append(fb_instrs, d.v)
               /\ fb_idx' = fb_idx + 1
               /\ fb_input' = d.rest
               /\ UNCHANGED decoded
  /\ UNCHANGED <<source, todo, buff, enc, phase, bytes, single>>
  /\ UNCHANGED vm_vars
  /\ UNCHANGED compiler_vars

\* Instruction::from_bytes: one turn of its loop, or its return.
FromBytesStep ==
  /\ phase = "decode"
  /\ decoded = Decoding
  /\ IF fb_input = << >>
     THEN /\ decoded' = [kind |-> "Ok"]
          /\ UNCHANGED <<fb_input, fb_instrs, fb_idx>>
     ELSE LET d == Instruction_decode(fb_input) IN
          IF d.res # "Ok"
          THEN /\ decoded' = [kind |-> "Err", err |-> d, at |-> fb_idx]
               /\ UNCHANGED <<fb_input, fb_instrs, fb_idx>>
          ELSE /\ fb_instrs' = Append(fb_instrs, d.v)
               /\ fb_idx' = fb_idx + d.size
               /\ fb_input' = d.rest
               /\ UNCHANGED decoded
  /\ UNCHANGED <<source, todo, buff, enc, phase, bytes, single>>
  /\ UNCHANGED vm_vars
  /\ UNCHANGED compiler_vars

\* Instruction::decode applied to the whole slice.
DecodeOne ==
  /\ phase = "decode"
  /\ decoded = Decoding
  /\ fb_idx = 0
  /\ single' = [by |-> "Instruction", r |-> Instruction_decode(bytes)]
  /\ phase' = "decoded"
  /\ UNCHANGED <<source, todo, buff, enc, bytes, fb_input, fb_instrs, fb_idx, decoded>>
  /\ UNCHANGED vm_vars
  /\ UNCHANGED compiler_vars

\* <T as Operation>::decode_single_with_opcode applied to the whole slice,
\* for any operation T.
DecodeSingle ==
  /\ phase = "decode"
  /\ decoded = Decoding
  /\ fb_idx = 0
  /\ \E name \in OpNames :
       single' = [by |-> name, r |-> decode_single_with_opcode(name, bytes)]
  /\ phase' = "decoded"
  /\ UNCHANGED <<source, todo, buff, enc, bytes, fb_input, fb_instrs, fb_idx, decoded>>
  /\ UNCHANGED vm_vars
  /\ UNCHANGED compiler_vars

\* The instruction decode_single_with_opcode returned is encoded again, into
\* a fresh buffer.
EncodeSingle ==
  /\ phase = "decoded"
  /\ single.by \in OpNames
  /\ single.r.res = "Ok"
  /\ buff' = Instruction_encode(single.r.v, << >>)
  /\ enc' = [instr |-> single.r.v, out |-> << >>]
  /\ phase' = "reencoded"
  /\ UNCHANGED <<source, todo, bytes, fb_input, fb_instrs, fb_idx, decoded, single>>
  /\ UNCHANGED vm_vars
  /\ UNCHANGED compiler_vars

InitCodec ==
  /\ VMIdle
  /\ CompilerIdle
  /\ enc = [instr |-> NoInstruction, out |-> << >>]
  /\ single = NoResult
  /\ fb_instrs = << >>
  /\ fb_idx = 0
  /\ buff = << >>
  /\ \/ /\ source \in InstrLists
        /\ todo = source
        /\ phase = "encode"
        /\ bytes = << >>
        /\ fb_input = << >>
        /\ decoded = NotDecoding
     \/ /\ source = << >>
        /\ todo = << >>
        /\ phase = "decode"
        /\ bytes \in RawInputs
        /\ fb_input = bytes
        /\ decoded = Decoding

NextCodec ==
  \/ EncodeNext
  \/ HandOver
  \/ FromBytesStep
  \/ DecodeOne
  \/ DecodeSingle
  \/ EncodeSingle

SpecCodec == InitCodec /\ [][NextCodec]_vars

\* ------------------------------------------------------------------------
\* The AST (dyl-compiler/src/ast.rs)
\* An expression is a record tagged by its ExprKind variant; a Program is
\* the sequence of its functions.
\* ------------------------------------------------------------------------
integer(value) == [k |-> "Integer", value |-> value]
bool_(value) == [k |-> "Bool", value |-> value]
ident(name) == [k |-> "Ident", name |-> name]
addition(lhs, rhs) == [k |-> "Addition", left |-> lhs, right |-> rhs]
subtraction(lhs, rhs) == [k |-> "Subtraction", left |-> lhs, right |-> rhs]
multiplication(lhs, rhs) == [k |-> "Multiplication", left |-> lhs, right |-> rhs]
if_(condition, consequent, alternative) ==
  [k |-> "If", condition |-> condition, consequent |-> consequent,
   alternative |-> alternative]
Binding_new(name, value) == [name |-> name, value |-> value]
bindings(bs, next) == [k |-> "Bindings", defines |-> bs, ending_expression |-> next]
Function_new(name, body) == [name |-> name, body |-> body]
main_(body) == Function_new("main", body)
just_main(body) == << main_(body) >>

\* ------------------------------------------------------------------------
\* Types (dyl-compiler/src/ty.rs): "Int", "Bool" and the error type "Err"
\* ------------------------------------------------------------------------
TyOk(ty) == [ok |-> TRUE, ty |-> ty]
TyFail == [ok |-> FALSE, ty |-> "Err"]

\* Variant: two different types unify to the first one.
unify_with_left(self, other) ==
  IF self = "Err" THEN TyOk(other) ELSE TyOk(self)

unify_with(self, other) ==
  IF self = "Err" /\ other = "Err" THEN TyOk("Err")
  ELSE IF self = "Err" THEN TyOk(other)
  ELSE IF other = "Err" THEN TyOk(self)
  ELSE IF self = other THEN TyOk(self)
  ELSE TyFail

\* Variant: only the expected type is accepted.
expect_strict(self, expected) == self = expected

\* Ty::expect is Ok(()) exactly when this holds.
expect(self, expected) == self = expected \/ self = "Err"
expect_bool(self) == expect(self, "Bool")
expect_int(self) == expect(self, "Int")

\* ------------------------------------------------------------------------
\* The typing context: the bindings in scope, innermost last
\* ------------------------------------------------------------------------
TypingContext_new_subcontext(ctxt) == Len(ctxt)

TypingContext_add_binding(ctxt, name, ty) == Append(ctxt, [name |-> name, ty |-> ty])

TypingContext_resolve_binding(ctxt, name) ==
  LET hits == { i \in 1..Len(ctxt) : ctxt[i].name = name } IN
  IF hits = {} THEN TyFail
  ELSE TyOk(ctxt[CHOOSE i \in hits : \A j \in hits : j <= i].ty)

TypingContext_drop_subcontext(ctxt, new_top) ==
  IF new_top < Len(ctxt) THEN SubSeq(ctxt, 1, new_top) ELSE ctxt

\* ------------------------------------------------------------------------
\* The type checker (dyl-compiler/src/type_checker.rs)
\* check_inputs returns the context it leaves and whether it is Ok(());
\* get_output returns the context it leaves and Ok(ty) or Err(()).
\* ------------------------------------------------------------------------
RECURSIVE ExprKind_check_inputs(_, _)
RECURSIVE ExprKind_get_output(_, _)

\* `let x = v; ...` of the source: F applied to the value v, which is
\* computed before F is entered, as the statement before the next one.
With(v, F(_)) == CHOOSE r \in { F(x) : x \in { v } } : TRUE

Checked(ctxt, ok) == [ctxt |-> ctxt, ok |-> ok]
Output(ctxt, r) == [ctxt |-> ctxt, ok |-> r.ok, ty |-> r.ty]
unwrap_or_err(o) == IF o.ok THEN o.ty ELSE "Err"

\* The body shared by Addition, Multiplication and Subtraction: both operands
\* are checked, and both must output Int.
operands_check_inputs(self, ctxt) ==
  With(ExprKind_check_inputs(self.left, ctxt), LAMBDA left_valid :
  With(ExprKind_check_inputs(self.right, left_valid.ctxt), LAMBDA right_valid :
  With(ExprKind_get_output(self.left, right_valid.ctxt), LAMBDA left_ty :
  With(ExprKind_get_output(self.right, left_ty.ctxt), LAMBDA right_ty :
    Checked(right_ty.ctxt,
            /\ left_valid.ok /\ right_valid.ok
            /\ left_ty.ok /\ expect_int(left_ty.ty)
            /\ right_ty.ok /\ expect_int(right_ty.ty))))))

Addition_check_inputs(self, ctxt) == operands_check_inputs(self, ctxt)
Addition_get_output(self, ctxt) == Output(ctxt, TyOk("Int"))

Integer_check_inputs(self, ctxt) == Checked(ctxt, TRUE)
Integer_get_output(self, ctxt) == Output(ctxt, TyOk("Int"))

Binding_check_inputs(self, ctxt) == ExprKind_check_inputs(self.value, ctxt)

\* The for_each of Bindings::check_inputs: each binding is checked, then
\* added to the context with the type of its value.
RECURSIVE Bindings_check_defines(_, _, _)
Bindings_check_defines(defines, ctxt, bindings_are_valid) ==
  IF defines = << >> THEN Checked(ctxt, bindings_are_valid)
  ELSE With(Binding_check_inputs(Head(defines), ctxt), LAMBDA valid :
       With(ExprKind_get_output(Head(defines).value, valid.ctxt), LAMBDA binding_ty :
         Bindings_check_defines(Tail(defines),
           TypingContext_add_binding(binding_ty.ctxt, Head(defines).name,
                                     unwrap_or_err(binding_ty)),
           bindings_are_valid /\ valid.ok)))

\* Variant: the subcontext of the block is not dropped.
Bindings_check_inputs_leaking(self, ctxt) ==
  With(Bindings_check_defines(self.defines, ctxt, TRUE), LAMBDA bindings_are_valid :
  With(ExprKind_check_inputs(self.ending_expression, bindings_are_valid.ctxt),
       LAMBDA final_is_valid :
    Checked(final_is_valid.ctxt, bindings_are_valid.ok /\ final_is_valid.ok)))

Bindings_check_inputs(self, ctxt) ==
  With(Bindings_check_defines(self.defines, ctxt, TRUE), LAMBDA bindings_are_valid :
  With(ExprKind_check_inputs(self.ending_expression, bindings_are_valid.ctxt),
       LAMBDA final_is_valid :
    Checked(TypingContext_drop_subcontext(final_is_valid.ctxt,
                                          TypingContext_new_subcontext(ctxt)),
            bindings_are_valid.ok /\ final_is_valid.ok)))

\* The for_each of Bindings::get_output: each binding is added to the
\* context with the type of its value.
RECURSIVE Bindings_add_defines(_, _)
Bindings_add_defines(defines, ctxt) ==
  IF defines = << >> THEN ctxt
  ELSE With(ExprKind_get_output(Head(defines).value, ctxt), LAMBDA binding_ty :
         Bindings_add_defines(Tail(defines),
           TypingContext_add_binding(binding_ty.ctxt, Head(defines).name,
                                     unwrap_or_err(binding_ty))))

Bindings_get_output(self, ctxt) ==
  With(ExprKind_get_output(self.ending_expression, Bindings_add_defines(self.defines, ctxt)),
       LAMBDA expr_ty :
    Output(TypingContext_drop_subcontext(expr_ty.ctxt, TypingContext_new_subcontext(ctxt)),
           expr_ty))

Ident_check_inputs(self, ctxt) ==
  Checked(ctxt, TypingContext_resolve_binding(ctxt, self.name).ok)
Ident_get_output(self, ctxt) == Output(ctxt, TypingContext_resolve_binding(ctxt, self.name))

Multiplication_check_inputs(self, ctxt) == operands_check_inputs(self, ctxt)
Multiplication_get_output(self, ctxt) == Output(ctxt, TyOk("Int"))

Subtraction_check_inputs(self, ctxt) == operands_check_inputs(self, ctxt)
Subtraction_get_output(self, ctxt) == Output(ctxt, TyOk("Int"))

If_get_output(self, ctxt) ==
  With(ExprKind_get_output(self.consequent, ctxt), LAMBDA consequent_ty :
  With(ExprKind_get_output(self.alternative, consequent_ty.ctxt), LAMBDA alternative_ty :
    Output(alternative_ty.ctxt,
           unify_with(unwrap_or_err(consequent_ty), unwrap_or_err(alternative_ty)))))

\* Variant: the type of the condition is not looked at.
If_check_inputs_any_condition(self, ctxt) ==
  With(ExprKind_check_inputs(self.condition, ctxt), LAMBDA condition_check :
  With(ExprKind_check_inputs(self.consequent, condition_check.ctxt), LAMBDA consequent_check :
  With(ExprKind_check_inputs(self.alternative, consequent_check.ctxt),
       LAMBDA alternative_check :
  With(If_get_output(self, alternative_check.ctxt), LAMBDA branches_unify :
    Checked(branches_unify.ctxt,
            /\ condition_check.ok /\ consequent_check.ok /\ alternative_check.ok
            /\ branches_unify.ok)))))

If_check_inputs(self, ctxt) ==
  With(ExprKind_check_inputs(self.condition, ctxt), LAMBDA condition_check :
  With(ExprKind_check_inputs(self.consequent, condition_check.ctxt), LAMBDA consequent_check :
  With(ExprKind_check_inputs(self.alternative, consequent_check.ctxt),
       LAMBDA alternative_check :
  With(If_get_output(self, alternative_check.ctxt), LAMBDA branches_unify :
  With(ExprKind_get_output(self.condition, branches_unify.ctxt), LAMBDA condition_ty :
    Checked(condition_ty.ctxt,
            /\ condition_check.ok /\ consequent_check.ok /\ alternative_check.ok
            /\ branches_unify.ok
            /\ condition_ty.ok /\ expect_bool(condition_ty.ty)))))))

Bool_check_inputs(self, ctxt) == Checked(ctxt, TRUE)
Bool_get_output(self, ctxt) == Output(ctxt, TyOk("Bool"))

ExprKind_check_inputs(self, ctxt) ==
  CASE self.k = "Addition" -> Addition_check_inputs(self, ctxt)
    [] self.k = "Integer" -> Integer_check_inputs(self, ctxt)
    [] self.k = "Bindings" -> Bindings_check_inputs(self, ctxt)
    [] self.k = "Ident" -> Ident_check_inputs(self, ctxt)
    [] self.k = "Multiplication" -> Multiplication_check_inputs(self, ctxt)
    [] self.k = "Subtraction" -> Subtraction_check_inputs(self, ctxt)
    [] self.k = "If" -> If_check_inputs(self, ctxt)
    [] self.k = "Bool" -> Bool_check_inputs(self, ctxt)

ExprKind_get_output(self, ctxt) ==
  CASE self.k = "Addition" -> Addition_get_output(self, ctxt)
    [] self.k = "Integer" -> Integer_get_output(self, ctxt)
    [] self.k = "Bindings" -> Bindings_get_output(self, ctxt)
    [] self.k = "Ident" -> Ident_get_output(self, ctxt)
    [] self.k = "Multiplication" -> Multiplication_get_output(self, ctxt)
    [] self.k = "Subtraction" -> Subtraction_get_output(self, ctxt)
    [] self.k = "If" -> If_get_output(self, ctxt)
    [] self.k = "Bool" -> Bool_get_output(self, ctxt)

\* Variant: the output type is not compared with Int.
check_ast_inputs_only(ast, ctxt) ==
  With(ExprKind_check_inputs(ast, ctxt), LAMBDA input_check_rslt :
  With(ExprKind_get_output(ast, input_check_rslt.ctxt), LAMBDA output_ty :
    input_check_rslt.ok /\ output_ty.ok))

\* check_ast on an expression: its inputs are valid and it outputs Int; the
\* context carries no error, the parser having accepted the program.
check_ast(ast, ctxt) ==
  With(ExprKind_check_inputs(ast, ctxt), LAMBDA input_check_rslt :
  With(ExprKind_get_output(ast, input_check_rslt.ctxt), LAMBDA output_ty :
    input_check_rslt.ok /\ output_ty.ok /\ output_ty.ty = "Int"))

\* The index of the first function called main, 0 when there is none.
main_fn_data(functions) ==
  LET mains == { i \in 1..Len(functions) : functions[i].name = "main" } IN
  IF mains = {} THEN 0 ELSE CHOOSE i \in mains : \A j \in mains : i <= j

\* The check of a whole Program: it has a main, whose body passes check_ast.
Program_check(ast) ==
  /\ main_fn_data(ast) # 0
  /\ check_ast(ast[main_fn_data(ast)].body, << >>)

\* ------------------------------------------------------------------------
\* The unresolved instructions (dyl-compiler/src/instruction.rs): jumps
\* hold label identifiers
\* ------------------------------------------------------------------------
Instruction_push_i(i) == [uop |-> "PushI", arg |-> i]
Instruction_add_i == [uop |-> "AddI"]
Instruction_f_stop == [uop |-> "FStop"]
Instruction_neg == [uop |-> "Neg"]
Instruction_cond_jmp(negative, null, positive) ==
  [uop |-> "CondJmp", negative |-> negative, null |-> null, positive |-> positive]
Instruction_goto(addr) == [uop |-> "Goto", arg |-> addr]
Instruction_mul == [uop |-> "Mul"]
Instruction_pop_copy(offset) == [uop |-> "PopCopy", arg |-> offset]
Instruction_pop(offset) == [uop |-> "Pop", arg |-> offset]
Instruction_push_copy(offset) == [uop |-> "PushCopy", arg |-> offset]
\* The return of a function: `ret 0 0` once resolved.
Instruction_ret == [uop |-> "Ret"]

\* ------------------------------------------------------------------------
\* The lowering contexts (dyl-compiler/src/context.rs)
\* ------------------------------------------------------------------------
None == [some |-> FALSE, v |-> 0]
Some(v) == [some |-> TRUE, v |-> v]

\* LabelContext: a vector of positions indexed by label identifier.
LabelContext_new_anonymous(labels) == [labels |-> Append(labels, None), id |-> Len(labels)]

\* Variant: the call reports success and the position is lost.
LabelContext_set_position_lost(labels, label_id, pos) ==
  [ok |-> TRUE, labels |-> labels, err |-> << >>]

\* LabelDefinitionError and LabelResolutionError
AlreadyDefined(addr) == << "AlreadyDefined", addr >>
UnknownLabel == << "UnknownLabel" >>
UnknownLabelPosition == << "UnknownLabelPosition" >>

LabelContext_set_position(labels, label_id, pos) ==
  IF label_id >= Len(labels) THEN [ok |-> FALSE, labels |-> labels, err |-> UnknownLabel]
  ELSE IF labels[label_id + 1].some
       THEN [ok |-> FALSE, labels |-> labels, err |-> AlreadyDefined(labels[label_id + 1].v)]
       ELSE [ok |-> TRUE, labels |-> [labels EXCEPT ![label_id + 1] = Some(pos)],
             err |-> << >>]

\* Variant: a label without a position resolves to position 0.
LabelContext_resolve_unset_as_zero(labels, label_id) ==
  IF label_id >= Len(labels) THEN [some |-> FALSE, v |-> 0, err |-> UnknownLabel]
  ELSE [some |-> TRUE, v |-> labels[label_id + 1].v, err |-> << >>]

\* Ok(position) as `some`, or the error.
LabelContext_resolve(labels, label_id) ==
  IF label_id >= Len(labels) THEN [some |-> FALSE, v |-> 0, err |-> UnknownLabel]
  ELSE IF labels[label_id + 1].some
       THEN [some |-> TRUE, v |-> labels[label_id + 1].v, err |-> << >>]
       ELSE [some |-> FALSE, v |-> 0, err |-> UnknownLabelPosition]

\* The entry point of a function, kept by name.
LabelContext_new_named(named, name, pos) == Append(named, [name |-> name, pos |-> pos])

\* StackContext: the names of the slots of the runtime stack, bottom first;
\* the empty string names an anonymous slot.
StackContext_push_anonymous(names) == Append(names, "")

\* AnonymousNamingError and AnonymousPoppingError
NoTopVariable == << "NoTopVariable" >>
NotAnonymous == << "NotAnonymous" >>
EmptyStack == << "EmptyStack" >>

StackContext_name_top_anonymous(names, name) ==
  IF names = << >> THEN [ok |-> FALSE, names |-> names, err |-> NoTopVariable]
  ELSE IF names[Len(names)] = ""
       THEN [ok |-> TRUE, names |-> [names EXCEPT ![Len(names)] = name], err |-> << >>]
       ELSE [ok |-> FALSE, names |-> names, err |-> NotAnonymous]

\* Variant: the depth of the topmost slot called name is counted from one.
StackContext_resolve_from_one(names, name) ==
  LET hits == { i \in 1..Len(names) : names[i] = name } IN
  IF hits = {} THEN None
  ELSE Some((Len(names) + 1 - (CHOOSE i \in hits : \A j \in hits : j <= i)) % (U16Max + 1))

\* The depth, from the top, of the topmost slot called name, as a u16.
StackContext_resolve(names, name) ==
  LET hits == { i \in 1..Len(names) : names[i] = name } IN
  IF hits = {} THEN None
  ELSE Some((Len(names) - (CHOOSE i \in hits : \A j \in hits : j <= i)) % (U16Max + 1))

StackContext_new_subcontext(names) == Len(names)

\* Variant: the slots of the subcontext are kept.
StackContext_drop_subcontext_kept(names, new_top) == names

StackContext_drop_subcontext(names, new_top) ==
  IF new_top < Len(names) THEN SubSeq(names, 1, new_top) ELSE names

\* The slot is popped before it is looked at.
StackContext_pop_top_anonymous(names) ==
  IF names = << >> THEN [ok |-> FALSE, names |-> names, err |-> EmptyStack]
  ELSE [ok |-> names[Len(names)] = "", names |-> SubSeq(names, 1, Len(names) - 1),
        err |-> IF names[Len(names)] = "" THEN << >> ELSE NotAnonymous]

ErrorContext_add(errs, e) == Append(errs, e)

\* The messages of the lowerer: the text and, where the text is formatted
\* with a name, the name.
UndefinedVariable(name) == << "Undefined variable", name >>
NoMainFunctionFound == << "No main function found" >>

\* LoweringContext::default, with the collector lower_ast starts from.  A
\* lowering state holds the collector, the three contexts, whether an
\* unwrap() has panicked, and the result of the node lowered last.  It also
\* keeps, for each instruction of the collector, StackContext::depth() at the
\* time the instruction was pushed, and the label identifiers set_position
\* was called with, in the order of the calls.
LoweringContext_new ==
  [collector |-> << >>, labels |-> << >>, named |-> << >>, names |-> << >>,
   errs |-> << >>, panicked |-> FALSE, ok |-> TRUE, depths |-> << >>, sets |-> << >>]

\* ------------------------------------------------------------------------
\* Lowering (dyl-compiler/src/lowering.rs)
\* ------------------------------------------------------------------------
RECURSIVE ExprKind_lower(_, _)

\* collector.push(instr), and ctxt.stack_mut().pop_top_anonymous().unwrap()
push(st, instr) ==
  [st EXCEPT !.collector = Append(@, instr), !.depths = Append(@, Len(st.names))]
pop_top_anonymous_unwrap(st) ==
  LET popped == StackContext_pop_top_anonymous(st.names) IN
  [st EXCEPT !.names = popped.names, !.panicked = @ \/ ~popped.ok]
push_anonymous(st) == [st EXCEPT !.names = StackContext_push_anonymous(@)]
drop_subcontext(st, new_top) ==
  [st EXCEPT !.names = StackContext_drop_subcontext(@, new_top)]
set_position_unwrap(st, label_id) ==
  LET set == LabelContext_set_position(st.labels, label_id, Len(st.collector)) IN
  [st EXCEPT !.labels = set.labels, !.panicked = @ \/ ~set.ok,
             !.sets = Append(@, label_id)]
with_result(st, ok) == [st EXCEPT !.ok = ok]

Integer_lower(self, st) ==
  with_result(push_anonymous(push(st, Instruction_push_i(self.value))), TRUE)

Addition_lower(self, st) ==
  With(ExprKind_lower(self.left, st), LAMBDA left_exp :
  With(ExprKind_lower(self.right, left_exp), LAMBDA right_exp :
    with_result(pop_top_anonymous_unwrap(push(right_exp, Instruction_add_i)),
                left_exp.ok /\ right_exp.ok)))

Subtraction_lower(self, st) ==
  With(ExprKind_lower(self.left, st), LAMBDA left_exp :
  With(ExprKind_lower(self.right, left_exp), LAMBDA right_exp :
    with_result(
      pop_top_anonymous_unwrap(push(push(right_exp, Instruction_neg), Instruction_add_i)),
      left_exp.ok /\ right_exp.ok)))

Multiplication_lower(self, st) ==
  With(ExprKind_lower(self.left, st), LAMBDA left_exp :
  With(ExprKind_lower(self.right, left_exp), LAMBDA right_exp :
    with_result(pop_top_anonymous_unwrap(push(right_exp, Instruction_mul)),
                left_exp.ok /\ right_exp.ok)))

\* Variant: the null arm goes to the consequent and the positive arm to the
\* alternative.
If_lower_arms_exchanged(self, st) ==
  With(ExprKind_lower(self.condition, st), LAMBDA condition_exp :
  With(LabelContext_new_anonymous(condition_exp.labels), LAMBDA consequent_start :
  With(LabelContext_new_anonymous(consequent_start.labels), LAMBDA alt_start :
  With(LabelContext_new_anonymous(alt_start.labels), LAMBDA consequent_end :
  With(pop_top_anonymous_unwrap(
         push([condition_exp EXCEPT !.labels = consequent_end.labels],
              Instruction_cond_jmp(consequent_start.id, consequent_start.id, alt_start.id))),
       LAMBDA jumped :
  With(StackContext_new_subcontext(jumped.names), LAMBDA branches_subcontext :
  With(ExprKind_lower(self.consequent, set_position_unwrap(jumped, consequent_start.id)),
       LAMBDA consequent_exp :
  With(ExprKind_lower(self.alternative,
         set_position_unwrap(
           drop_subcontext(push(consequent_exp, Instruction_goto(consequent_end.id)),
                           branches_subcontext),
           alt_start.id)),
       LAMBDA alternative_exp :
    with_result(
      set_position_unwrap(
        push_anonymous(drop_subcontext(alternative_exp, branches_subcontext)),
        consequent_end.id),
      condition_exp.ok /\ consequent_exp.ok /\ alternative_exp.ok)))))))))

\* The condition; three labels; cond_jmp, which takes the condition off the
\* stack; the consequent from consequent_start; goto_end; the alternative
\* from alt_start, in the stack context the consequent started in; the
\* result on that stack context; consequent_end.
If_lower(self, st) ==
  With(ExprKind_lower(self.condition, st), LAMBDA condition_exp :
  With(LabelContext_new_anonymous(condition_exp.labels), LAMBDA consequent_start :
  With(LabelContext_new_anonymous(consequent_start.labels), LAMBDA alt_start :
  With(LabelContext_new_anonymous(alt_start.labels), LAMBDA consequent_end :
  With(pop_top_anonymous_unwrap(
         push([condition_exp EXCEPT !.labels = consequent_end.labels],
              Instruction_cond_jmp(consequent_start.id, alt_start.id, consequent_start.id))),
       LAMBDA jumped :
  With(StackContext_new_subcontext(jumped.names), LAMBDA branches_subcontext :
  With(ExprKind_lower(self.consequent, set_position_unwrap(jumped, consequent_start.id)),
       LAMBDA consequent_exp :
  With(ExprKind_lower(self.alternative,
         set_position_unwrap(
           drop_subcontext(push(consequent_exp, Instruction_goto(consequent_end.id)),
                           branches_subcontext),
           alt_start.id)),
       LAMBDA alternative_exp :
    with_result(
      set_position_unwrap(
        push_anonymous(drop_subcontext(alternative_exp, branches_subcontext)),
        consequent_end.id),
      condition_exp.ok /\ consequent_exp.ok /\ alternative_exp.ok)))))))))

Binding_lower(self, st) ==
  With(ExprKind_lower(self.value, st), LAMBDA value_exp :
  With(StackContext_name_top_anonymous(value_exp.names, self.name), LAMBDA named_top :
    [value_exp EXCEPT !.names = named_top.names, !.panicked = @ \/ ~named_top.ok]))

\* The map and fold of Bindings::lower over the defines.
RECURSIVE Bindings_lower_defines(_, _, _)
Bindings_lower_defines(defines, st, defines_ok) ==
  IF defines = << >> THEN with_result(st, defines_ok)
  ELSE With(Binding_lower(Head(defines), st), LAMBDA b :
         Bindings_lower_defines(Tail(defines), b, defines_ok /\ b.ok))

\* Variant: the result is written over the slot of the last binding.
Bindings_lower_over_last(self, st) ==
  With(Bindings_lower_defines(self.defines, st, TRUE), LAMBDA defines_exp :
  With(ExprKind_lower(self.ending_expression, defines_exp), LAMBDA ending_exp :
  With(Len(self.defines) % (U16Max + 1), LAMBDA len :
    with_result(
      push_anonymous(
        drop_subcontext(
          push(push(ending_exp, Instruction_pop_copy(1)), Instruction_pop(len - 1)),
          StackContext_new_subcontext(st.names))),
      defines_exp.ok /\ ending_exp.ok))))

\* `len as u16`; the parser's many1 gives every Bindings at least one
\* define, so `len - 1` stays a u16.
Bindings_lower(self, st) ==
  With(Bindings_lower_defines(self.defines, st, TRUE), LAMBDA defines_exp :
  With(ExprKind_lower(self.ending_expression, defines_exp), LAMBDA ending_exp :
  With(Len(self.defines) % (U16Max + 1), LAMBDA len :
    with_result(
      push_anonymous(
        drop_subcontext(
          push(push(ending_exp, Instruction_pop_copy(len)), Instruction_pop(len - 1)),
          StackContext_new_subcontext(st.names))),
      defines_exp.ok /\ ending_exp.ok))))

\* Variant: an undefined identifier is not reported.
Ident_lower_silent(self, st) ==
  With(StackContext_resolve(st.names, self.name), LAMBDA stack_offset :
    IF ~stack_offset.some
    THEN with_result(push_anonymous(st), FALSE)
    ELSE with_result(push_anonymous(push(st, Instruction_push_copy(stack_offset.v))), TRUE))

Ident_lower(self, st) ==
  With(StackContext_resolve(st.names, self.name), LAMBDA stack_offset :
    IF ~stack_offset.some
    THEN with_result(
           push_anonymous([st EXCEPT !.errs = ErrorContext_add(@, UndefinedVariable(self.name))]),
           FALSE)
    ELSE with_result(push_anonymous(push(st, Instruction_push_copy(stack_offset.v))), TRUE))

Bool_lower(self, st) ==
  with_result(
    push_anonymous(push(st, Instruction_push_i(IF self.value THEN 1 ELSE 0))), TRUE)

ExprKind_lower(self, st) ==
  CASE self.k = "Addition" -> Addition_lower(self, st)
    [] self.k = "Integer" -> Integer_lower(self, st)
    [] self.k = "Subtraction" -> Subtraction_lower(self, st)
    [] self.k = "If" -> If_lower(self, st)
    [] self.k = "Multiplication" -> Multiplication_lower(self, st)
    [] self.k = "Bindings" -> Bindings_lower(self, st)
    [] self.k = "Ident" -> Ident_lower(self, st)
    [] self.k = "Bool" -> Bool_lower(self, st)

\* The label of the function is recorded, the body lowered and, unless that
\* failed, the copy of the result and the return are emitted.
Function_lower(self, st) ==
  With(ExprKind_lower(self.body,
         [st EXCEPT !.named = LabelContext_new_named(@, self.name, Len(st.collector))]),
       LAMBDA body :
    IF ~body.ok THEN body
    ELSE with_result(push(push(body, Instruction_pop_copy(1)), Instruction_ret), TRUE))

\* The map and fold of Program::lower over the functions other than main.
RECURSIVE Program_lower_others(_, _, _, _, _)
Program_lower_others(functions, idx, idx_to_avoid, st, rslt) ==
  IF idx > Len(functions) THEN with_result(st, rslt)
  ELSE IF idx = idx_to_avoid
       THEN Program_lower_others(functions, idx + 1, idx_to_avoid, st, rslt)
       ELSE With(Function_lower(functions[idx], st), LAMBDA f :
              Program_lower_others(functions, idx + 1, idx_to_avoid, f, rslt /\ f.ok))

\* main is lowered first, or its absence reported.
Program_lower_main(self, st) ==
  IF main_fn_data(self) = 0
  THEN with_result([st EXCEPT !.errs = ErrorContext_add(@, NoMainFunctionFound)], FALSE)
  ELSE Function_lower(self[main_fn_data(self)], st)

\* main is lowered first; its trailing pop_copy and ret are replaced by
\* f_stop (a function lowered with success ends with them, so that the
\* collector holds two instructions at least); then the other functions are
\* lowered.
\* Variant: every function is lowered where the source has it.
Program_lower_in_order(self, st) ==
  With(Program_lower_main(self, st), LAMBDA main_fn_lowering :
  With(Program_lower_others(self, 1, 0, st, TRUE), LAMBDA others :
    with_result(others, others.ok /\ main_fn_lowering.ok)))

Program_lower(self, st) ==
  With(Program_lower_main(self, st), LAMBDA main_fn_lowering :
  With(Program_lower_others(self, 1, main_fn_data(self),
         IF main_fn_lowering.ok
         THEN push([main_fn_lowering EXCEPT !.collector = SubSeq(@, 1, Len(@) - 2),
                                            !.depths = SubSeq(@, 1, Len(@) - 2)],
                   Instruction_f_stop)
         ELSE main_fn_lowering,
         TRUE),
       LAMBDA others :
    with_result(others, others.ok /\ main_fn_lowering.ok)))

\* ErrorContext::emit_possible_errors: Ok(v) for an Ok(v) and an empty list
\* of errors, and otherwise the number of errors.
emit_possible_errors(errs, rslt_ok) == rslt_ok /\ errs = << >>

\* What lower_ast returns when it fails: the number of errors and no
\* instruction.
CompilerPassError(res, n) ==
  [res |-> res, instrs |-> << >>, labels |-> << >>, depths |-> << >>, sets |-> << >>,
   errors |-> n]

\* Variant: the pass succeeds whatever the lowering returned and recorded.
lower_ast_always_ok(ast, ctxt) ==
  With(Program_lower(ast, ctxt), LAMBDA st :
    IF st.panicked THEN CompilerPassError("Panic", Len(st.errs))
    ELSE [res |-> "Ok", instrs |-> st.collector, labels |-> st.labels,
          depths |-> st.depths, sets |-> st.sets, errors |-> 0])

\* lower_ast: the lowering of the program, wrapped by the error context: it
\* returns the context and the instructions when the lowering succeeded and
\* no error was recorded.
lower_ast(ast, ctxt) ==
  With(Program_lower(ast, ctxt), LAMBDA st :
    IF st.panicked THEN CompilerPassError("Panic", Len(st.errs))
    ELSE IF emit_possible_errors(st.errs, st.ok)
         THEN [res |-> "Ok", instrs |-> st.collector, labels |-> st.labels,
               depths |-> st.depths, sets |-> st.sets, errors |-> 0]
         ELSE CompilerPassError("Err", Len(st.errs)))

\* ------------------------------------------------------------------------
\* Label resolution (Resolvable, dyl-compiler/src/instruction.rs)
\* The result is a resolved instruction, or `unresolved` where expect()
\* panics.
\* ------------------------------------------------------------------------
unresolved == [op |-> "None"]

CondJmp_resolve(self, labels) ==
  LET negative_addr == LabelContext_resolve(labels, self.negative)
      null_addr == LabelContext_resolve(labels, self.null)
      positive_addr == LabelContext_resolve(labels, self.positive)
  IN IF negative_addr.some /\ null_addr.some /\ positive_addr.some
     THEN cond_jmp(U32(negative_addr.v), U32(null_addr.v), U32(positive_addr.v))
     ELSE unresolved

\* Variant: a goto is resolved to the identifier of its label and not to the
\* position the label holds.
Goto_resolve_to_identifier(self, labels) ==
  LET dest == LabelContext_resolve(labels, self.arg) IN
  IF dest.some THEN goto(U32(self.arg)) ELSE unresolved

Goto_resolve(self, labels) ==
  LET dest == LabelContext_resolve(labels, self.arg) IN
  IF dest.some THEN goto(U32(dest.v)) ELSE unresolved

Instruction_resolve(self, labels) ==
  CASE self.uop = "PushI" -> push_i(self.arg)
    [] self.uop = "AddI" -> add_i
    [] self.uop = "FStop" -> f_stop
    [] self.uop = "Neg" -> neg
    [] self.uop = "CondJmp" -> CondJmp_resolve(self, labels)
    [] self.uop = "Goto" -> Goto_resolve(self, labels)
    [] self.uop = "Mul" -> mul
    [] self.uop = "PopCopy" -> pop_cpy(self.arg)
    [] self.uop = "Pop" -> pop(self.arg)
    [] self.uop = "PushCopy" -> push_cpy(self.arg)
    [] self.uop = "Ret" -> ret(0, 0)

resolve_context(instructions, labels) ==
  [i \in 1..Len(instructions) |-> Instruction_resolve(instructions[i], labels)]

\* ------------------------------------------------------------------------
\* The compiler at work: bytecode_from_program and run_program applied to
\* bounded programs (dyl-compiler/src/lib.rs, dyl-frontend/src/main.rs)
\* ------------------------------------------------------------------------
MaxOps == 2

ArithLiterals == { MinI32, -1, 3, MaxI32 }
Leaves == { integer(n) : n \in ArithLiterals }

\* What the parser returns for `n op n op ...`: operators folded to the left.
RECURSIVE Chains(_)
Chains(n) ==
  IF n = 0 THEN Leaves
  ELSE LET sub == Chains(n - 1) IN
       sub \cup { addition(l, r) : l \in sub, r \in Leaves }
           \cup { subtraction(l, r) : l \in sub, r \in Leaves }
           \cup { multiplication(l, r) : l \in sub, r \in Leaves }

\* `let a = n; let b = n; a op b` and `if b { n } else { n }`.
LetBodies ==
  { bindings(<< Binding_new("a", l), Binding_new("b", r) >>, e) :
      l \in Leaves, r \in Leaves,
      e \in { addition(ident("a"), ident("b")), subtraction(ident("a"), ident("b")),
              multiplication(ident("b"), ident("a")) } }

IfBodies ==
  { if_(bool_(c), l, r) : c \in BOOLEAN, l \in Leaves, r \in Leaves }

\* Bodies main is given in the documentation and the tests, and bodies that
\* nest scopes, branches and temporaries.
AcceptedBodies ==
  { integer(42),
    addition(multiplication(integer(10), integer(4)), integer(2)),
    subtraction(integer(43), integer(1)),
    addition(addition(integer(40), integer(1)), integer(1)),
    bindings(<< Binding_new("a", integer(40)), Binding_new("b", integer(2)) >>,
             addition(ident("a"), ident("b"))),
    addition(integer(2), multiplication(integer(10), integer(4))),
    bindings(<< Binding_new("c", bool_(TRUE)) >>,
             if_(ident("c"), integer(42), integer(-1))),
    bindings(<< Binding_new("a", integer(1)),
                Binding_new("a", addition(ident("a"), integer(41))) >>, ident("a")),
    addition(integer(1),
             bindings(<< Binding_new("a", integer(2)) >>,
                      multiplication(ident("a"), integer(3)))),
    bindings(<< Binding_new("a", if_(bool_(FALSE), integer(1), integer(5))),
                Binding_new("b", integer(3)) >>,
             subtraction(ident("a"), ident("b"))),
    if_(if_(bool_(TRUE), bool_(FALSE), bool_(TRUE)), integer(1), integer(2)),
    bindings(<< Binding_new("a", integer(5)) >>,
             addition(integer(1), addition(integer(2), ident("a")))),
    bindings(<< Binding_new("a", integer(7)),
                Binding_new("b", bindings(<< Binding_new("a", integer(1)) >>,
                                          addition(ident("a"), ident("a")))) >>,
             multiplication(ident("a"), ident("b"))),
    if_(bool_(FALSE),
        bindings(<< Binding_new("a", integer(1)) >>, ident("a")),
        bindings(<< Binding_new("a", integer(2)), Binding_new("b", integer(40)) >>,
                 addition(ident("a"), ident("b")))),
    subtraction(integer(0), integer(MinI32)),
    bindings(<< Binding_new("a", integer(MaxI32)) >>, addition(ident("a"), integer(1))),
    if_(bool_(TRUE), integer(42), integer(-1)),
    bindings(<< Binding_new("c", integer(3)), Binding_new("c", bool_(FALSE)) >>,
             if_(ident("c"), integer(42), integer(-1))),
    bindings(<< Binding_new("c", if_(bool_(TRUE), bool_(TRUE), bool_(FALSE))) >>,
             addition(if_(ident("c"), integer(40), integer(0)), integer(2))) }

\* Bodies with a type error or an undefined name.
RejectedBodies ==
  { if_(integer(1), integer(42), integer(-1)),
    if_(integer(-3), integer(42), integer(-1)),
    bindings(<< Binding_new("c", bool_(TRUE)), Binding_new("c", integer(2)) >>,
             if_(ident("c"), integer(42), integer(-1))),
    addition(bool_(TRUE), integer(1)),
    ident("x"),
    bool_(TRUE),
    if_(bool_(TRUE), integer(1), bool_(FALSE)),
    addition(bindings(<< Binding_new("a", integer(1)) >>, ident("a")), ident("a")) }

Bodies == Chains(MaxOps) \cup LetBodies \cup IfBodies \cup AcceptedBodies \cup RejectedBodies

Programs ==
  { just_main(b) : b \in Bodies }
  \cup { << >>,
         << Function_new("f", integer(41)) >>,
         << Function_new("f", ident("x")), Function_new("g", integer(2)) >>,
         << Function_new("f", integer(41)), main_(integer(42)) >>,
         << main_(if_(bool_(TRUE), integer(42), integer(0))),
            Function_new("f", if_(bool_(FALSE), integer(1), integer(2))) >>,
         << main_(integer(42)), Function_new("f", ident("x")) >>,
         << Function_new("f", if_(bool_(TRUE), integer(1), integer(2))),
            main_(if_(bool_(FALSE), integer(0), integer(42))),
            Function_new("g", bindings(<< Binding_new("a", integer(1)) >>, ident("a"))) >>,
         << Function_new("f", integer(1)), Function_new("g", integer(2)),
            main_(addition(integer(40), integer(2))) >>,
         << main_(integer(42)), Function_new("main", integer(7)) >>,
         << Function_new("f", addition(ident("x"), ident("y"))), main_(integer(42)) >> }

\* type_checker::check_ast on the parsed program.
CheckAst ==
  /\ pass = "Parsed"
  /\ pass' = IF Program_check(program) THEN "Typed" ELSE "TypeError"
  /\ UNCHANGED <<program, lowered, resolved, unit>>
  /\ UNCHANGED vm_vars
  /\ UNCHANGED codec_vars

\* lowering::lower_ast in a fresh lowering context.
LowerAst ==
  /\ pass = "Typed"
  /\ LET r == lower_ast(program, LoweringContext_new) IN
       /\ pass' = CASE r.res = "Ok" -> "Lowered"
                    [] r.res = "Err" -> "LoweringError"
                    [] r.res = "Panic" -> "Panic"
       /\ lowered' = [instrs |-> r.instrs, labels |-> r.labels, depths |-> r.depths,
                     sets |-> r.sets, errors |-> r.errors]
  /\ UNCHANGED <<program, resolved, unit>>
  /\ UNCHANGED vm_vars
  /\ UNCHANGED codec_vars

\* lowering::lower_ast on a program that has no main, called as the tests of
\* lowering.rs call it, on the parsed program and in a fresh context; a
\* program that has a main goes through CheckAst first.
LowerAstWithoutMain ==
  /\ pass = "Parsed"
  /\ main_fn_data(program) = 0
  /\ LET r == lower_ast(program, LoweringContext_new) IN
       /\ pass' = CASE r.res = "Ok" -> "LoweredWithoutMain"
                    [] r.res = "Err" -> "LoweringErrorWithoutMain"
                    [] r.res = "Panic" -> "PanicWithoutMain"
       /\ lowered' = [instrs |-> r.instrs, labels |-> r.labels, depths |-> r.depths,
                     sets |-> r.sets, errors |-> r.errors]
  /\ UNCHANGED <<program, resolved, unit>>
  /\ UNCHANGED vm_vars
  /\ UNCHANGED codec_vars

\* The resolution of the labels of the lowered instructions.
ResolveLabels ==
  /\ pass = "Lowered"
  /\ LET final_instructions == resolve_context(lowered.instrs, lowered.labels) IN
       /\ resolved' = final_instructions
       /\ pass' = IF \E i \in 1..Len(final_instructions) : final_instructions[i] = unresolved
                  THEN "Panic" ELSE "Resolved"
  /\ UNCHANGED <<program, lowered, unit>>
  /\ UNCHANGED vm_vars
  /\ UNCHANGED codec_vars

\* run_program: Interpreter::from_instructions on the resolved instructions;
\* RunSingle then runs them.
RunProgram ==
  /\ pass = "Resolved"
  /\ pass' = "Running"
  /\ code' = resolved
  /\ stack' = Stack_new
  /\ ip' = 0
  /\ outcome' = Running
  /\ last' = [instr |-> NoInstruction, ip |-> 0, stack |-> << >>]
  /\ UNCHANGED <<program, lowered, resolved, unit, overflow_checks>>
  /\ UNCHANGED codec_vars

\* A call of a function other than main: no lowering emits the call, so the
\* caller is the two instructions call <the function's named label>; f_stop
\* placed after the resolved instructions, where the interpreter starts.
\* unit records the function called and the address the call returns to.
CallFunction ==
  /\ pass = "Resolved"
  /\ \E f \in 1..Len(program) :
       /\ program[f].name # "main"
       /\ LET named == Program_lower(program, LoweringContext_new).named
              entry == CHOOSE i \in 1..Len(named) : named[i].name = program[f].name
          IN /\ code' = resolved \o << call(U32(named[entry].pos)), f_stop >>
             /\ unit' = [kind |-> "Call", function |-> f, entry |-> named[entry].pos,
                         return |-> Len(resolved) + 1]
  /\ pass' = "Calling"
  /\ stack' = Stack_new
  /\ ip' = Len(resolved)
  /\ outcome' = Running
  /\ last' = [instr |-> NoInstruction, ip |-> 0, stack |-> << >>]
  /\ UNCHANGED <<program, lowered, resolved, overflow_checks>>
  /\ UNCHANGED codec_vars

InitCompile ==
  /\ CodecIdle
  /\ overflow_checks \in BOOLEAN
  /\ code = << >> /\ stack = << >> /\ ip = 0
  /\ outcome = [kind |-> "Idle"]
  /\ last = [instr |-> NoInstruction, ip |-> 0, stack |-> << >>]
  /\ program \in Programs
  /\ pass = "Parsed"
  /\ lowered = NothingLowered
  /\ resolved = << >>
  /\ unit = NoUnit

NextCompile ==
  \/ CheckAst
  \/ LowerAst
  \/ LowerAstWithoutMain
  \/ ResolveLabels
  \/ RunProgram
  \/ CallFunction
  \/ RunSingle

SpecCompile == InitCompile /\ [][NextCompile]_vars

\* Interpreter::run loops on run_single until the run stops or fails: a step
\* that can be taken is taken.  The programs are those of several functions
\* and those whose main is an if or a let block, the ones whose code jumps.
InitCompileRun ==
  /\ InitCompile
  /\ Len(program) # 1 \/ program[1].body.k \in { "If", "Bindings" }

SpecCompileRun == InitCompileRun /\ [][NextCompile]_vars /\ WF_vars(RunSingle)

\* ------------------------------------------------------------------------
\* One node on its own: Lowerable::lower from a given compile-time stack (as
\* the helpers `lower` and `lower_simple_ident` of the tests of lowering.rs
\* do) and Typed::check_inputs / get_output in a given typing context
\* ------------------------------------------------------------------------
MaxStart == 2

\* Compile-time stacks to start from: named and anonymous slots.
StartStacks == SeqsUpTo({ "a", "b", "" }, MaxStart)

\* Typing contexts to start from: nothing bound, a bound, a and b bound, to
\* any type.
Tys == { "Int", "Bool", "Err" }

StartContexts ==
  { << >> }
  \cup { TypingContext_add_binding(<< >>, "a", t) : t \in Tys }
  \cup { TypingContext_add_binding(TypingContext_add_binding(<< >>, "a", t), "b", u) :
            t \in Tys, u \in Tys }

\* Operand nodes: literals, names bound or not, and nodes of every other form.
OperandNodes ==
  { integer(3), bool_(TRUE), ident("a"), ident("b"), ident("x"),
    addition(integer(1), integer(2)),
    multiplication(bool_(FALSE), integer(2)),
    if_(bool_(TRUE), integer(1), integer(2)),
    if_(bool_(TRUE), bool_(FALSE), bool_(TRUE)),
    if_(bool_(TRUE), integer(1), bool_(FALSE)),
    if_(ident("b"), ident("a"), integer(2)),
    bindings(<< Binding_new("c", ident("a")) >>, ident("c")),
    bindings(<< Binding_new("a", ident("x")) >>, ident("a")),
    bindings(<< Binding_new("a", bool_(TRUE)) >>, ident("b")) }

ArithmeticNodes ==
  { addition(l, r) : l \in OperandNodes, r \in OperandNodes }
  \cup { subtraction(l, r) : l \in OperandNodes, r \in OperandNodes }
  \cup { multiplication(l, r) : l \in OperandNodes, r \in OperandNodes }

\* Branches of every type, bound or not, and the ifs made of them.
BranchNodes ==
  { integer(3), bool_(TRUE), ident("a"), ident("b"), ident("x"),
    if_(bool_(TRUE), integer(1), bool_(FALSE)) }

IfNodes == { if_(c, l, r) : c \in OperandNodes, l \in BranchNodes, r \in BranchNodes }

\* Let blocks of two bindings: the second value and the body may name the
\* first binding, the second binding may shadow it or a name of the context.
LetNodes ==
  { bindings(<< Binding_new("a", v), Binding_new(n, w) >>, e) :
      v \in { integer(1), bool_(TRUE), ident("b"), ident("x") },
      n \in { "a", "b", "c" },
      w \in { ident("a"), bool_(FALSE), addition(ident("a"), integer(1)) },
      e \in { ident("a"), ident("b"), ident("c"), addition(ident("a"), ident("b")) } }

\* The expressions lowered on their own: every form, nested both ways.
LoweredExprs ==
  { bindings(<< Binding_new("a", ident("b")), Binding_new("c", ident(d)) >>, e) :
      d \in { "d", "a" }, e \in { ident("e"), ident("c"), addition(ident("e"), ident("d")) } }
  \cup
  OperandNodes \cup AcceptedBodies \cup RejectedBodies \cup IfBodies
  \cup { addition(l, r) : l \in OperandNodes, r \in OperandNodes }
  \cup { if_(c, l, r) : c \in { bool_(FALSE), ident("a") },
                         l \in OperandNodes, r \in { integer(3), ident("b") } }
  \cup { bindings(<< Binding_new("a", v), Binding_new("c", w) >>, e) :
            v \in { integer(1), ident("b") }, w \in { ident("a"), bool_(TRUE) },
            e \in OperandNodes }

NotRun == [ok |-> FALSE, ty |-> "Err"]

\* expr.lower(&mut collector, &mut ctxt) on a fresh collector, the stack of
\* the context holding unit.start.
LowerExpr ==
  /\ unit.kind = "Lower"
  /\ ~unit.done
  /\ unit' = [unit EXCEPT
        !.done = TRUE,
        !.st = ExprKind_lower(unit.expr, [LoweringContext_new EXCEPT !.names = unit.start])]
  /\ UNCHANGED <<program, pass, lowered, resolved>>
  /\ UNCHANGED vm_vars
  /\ UNCHANGED codec_vars

\* expr.check_inputs(&mut ctxt), then expr.get_output(&mut ctxt).
TypeExpr ==
  /\ unit.kind = "Type"
  /\ ~unit.done
  /\ LET checked == ExprKind_check_inputs(unit.expr, unit.start)
         output == ExprKind_get_output(unit.expr, checked.ctxt)
     IN unit' = [unit EXCEPT !.done = TRUE,
                              !.checked = checked.ok,
                              !.output = [ok |-> output.ok, ty |-> output.ty],
                              !.st = output.ctxt]
  /\ UNCHANGED <<program, pass, lowered, resolved>>
  /\ UNCHANGED vm_vars
  /\ UNCHANGED codec_vars

InitUnits ==
  /\ CodecIdle
  /\ VMIdle
  /\ program = << >> /\ pass = "Idle" /\ lowered = NothingLowered /\ resolved = << >>
  /\ \/ \E e \in LoweredExprs, names \in StartStacks :
          unit = [kind |-> "Lower", expr |-> e, start |-> names, done |-> FALSE,
                  st |-> LoweringContext_new, checked |-> FALSE, output |-> NotRun]
     \/ \E e \in ArithmeticNodes \cup OperandNodes \cup IfNodes \cup LetNodes,
             ctxt \in StartContexts :
          unit = [kind |-> "Type", expr |-> e, start |-> ctxt, done |-> FALSE,
                  st |-> << >>, checked |-> FALSE, output |-> NotRun]

NextUnits == LowerExpr \/ TypeExpr

SpecUnits == InitUnits /\ [][NextUnits]_vars

\* ------------------------------------------------------------------------
\* The parser (dyl-compiler/src/parser.rs)
\* A source is a sequence of characters.  An Input is a span of it, the
\* source and the offset the span starts at, as a LocatedSpan is.  The
\* ParsingContext of the span is the list of the errors recorded so far; it
\* is handed from parser to parser and an error recorded by a parser stays in
\* it when the parser fails.  A parser returns Ok with the tail and a value,
\* or Err with the input of the error, or panics.
\* ------------------------------------------------------------------------
Letters ==
  { "a", "b", "c", "d", "e", "f", "g", "h", "i", "j", "k", "l", "m",
    "n", "o", "p", "q", "r", "s", "t", "u", "v", "w", "x", "y", "z" }

DigitChars == << "0", "1", "2", "3", "4", "5", "6", "7", "8", "9" >>

Digits == { DigitChars[d] : d \in 1..10 }

\* The characters multispace0 takes: space, tab, line feed, carriage return.
Whitespace == { " ", "\t", "\n", "\r" }

\* char::is_alphabetic, on the characters of the sources studied.
is_alphabetic(c) == c \in Letters

Span(src) == [src |-> src, at |-> 0]
Remaining(input) == Len(input.src) - input.at
CharAt(input, k) == input.src[input.at + k]
Advance(input, n) == [input EXCEPT !.at = @ + n]
Fragment(input, n) == SubSeq(input.src, input.at + 1, input.at + n)

\* LocatedSpan::location_line and get_utf8_column.
location_line(input) ==
  1 + Cardinality({ i \in 1..input.at : input.src[i] = "\n" })

get_utf8_column(input) ==
  LET feeds == { i \in 1..input.at : input.src[i] = "\n" } IN
  IF feeds = {} THEN input.at + 1
  ELSE input.at + 1 - (CHOOSE i \in feeds : \A j \in feeds : j <= i)

ParsedUnit == [k |-> "Unit"]
Parsed(tail, v, errs) == [ok |-> TRUE, panic |-> FALSE, tail |-> tail, v |-> v, errs |-> errs]
ParserFailed(input, errs) ==
  [ok |-> FALSE, panic |-> FALSE, tail |-> input, v |-> ParsedUnit, errs |-> errs]
ParserPanicked(input, errs) ==
  [ok |-> FALSE, panic |-> TRUE, tail |-> input, v |-> ParsedUnit, errs |-> errs]

\* Err::Error, which alt, many0, many1, fold_many1 and opt recover from.
Recoverable(r) == ~r.ok /\ ~r.panic

\* The number of characters of S the input starts with.
LeadingIn(input, S) ==
  CHOOSE n \in 0..Remaining(input) :
    /\ \A k \in 1..n : CharAt(input, k) \in S
    /\ n = Remaining(input) \/ CharAt(input, n + 1) \notin S

SkipSpaces(input) == Advance(input, LeadingIn(input, Whitespace))

multispace0(input, errs) == Parsed(SkipSpaces(input), ParsedUnit, errs)

tag(t, input, errs) ==
  IF /\ Remaining(input) >= Len(t)
     /\ \A k \in 1..Len(t) : CharAt(input, k) = t[k]
  THEN Parsed(Advance(input, Len(t)), t, errs)
  ELSE ParserFailed(input, errs)

\* delimited(multispace0, parser, multispace0)
space_insignificant(parser(_, _), input, errs) ==
  With(parser(SkipSpaces(input), errs), LAMBDA r :
    IF ~r.ok THEN r ELSE Parsed(SkipSpaces(r.tail), r.v, r.errs))

Symbol(c, input, errs) ==
  space_insignificant(LAMBDA i, e : tag(<< c >>, i, e), input, errs)

equal(input, errs) == Symbol("=", input, errs)
semicolon(input, errs) == Symbol(";", input, errs)
left_curly(input, errs) == Symbol("{", input, errs)
right_curly(input, errs) == Symbol("}", input, errs)
left_par(input, errs) == Symbol("(", input, errs)
right_par(input, errs) == Symbol(")", input, errs)
star(input, errs) == Symbol("*", input, errs)

\* Variant: the keyword is refused before any character of an identifier.
keyword_whole_word(kw, input, errs) ==
  With(tag(kw, SkipSpaces(input), errs), LAMBDA r :
    IF ~r.ok THEN r
    ELSE IF /\ Remaining(r.tail) > 0
            /\ CharAt(r.tail, 1) \in Letters \cup Digits \cup { "_" }
         THEN ParserFailed(input, errs)
         ELSE Parsed(SkipSpaces(r.tail), ParsedUnit, errs))

\* The keyword after any whitespace, refused when an alphabetic character
\* follows it, and then the whitespace after it.
keyword(kw, input, errs) ==
  With(tag(kw, SkipSpaces(input), errs), LAMBDA r :
    IF ~r.ok THEN r
    ELSE IF Remaining(r.tail) > 0 /\ is_alphabetic(CharAt(r.tail, 1))
         THEN ParserFailed(input, errs)
         ELSE Parsed(SkipSpaces(r.tail), ParsedUnit, errs))

KwIf == << "i", "f" >>
KwElse == << "e", "l", "s", "e" >>
KwLet == << "l", "e", "t" >>
KwTrue == << "t", "r", "u", "e" >>
KwFalse == << "f", "a", "l", "s", "e" >>
KwFn == << "f", "n" >>

parser_if_(input, errs) == keyword(KwIf, input, errs)
else_(input, errs) == keyword(KwElse, input, errs)
let_(input, errs) == keyword(KwLet, input, errs)
true_(input, errs) == keyword(KwTrue, input, errs)
false_(input, errs) == keyword(KwFalse, input, errs)

\* An alphabetic run or an underscore, then any run of alphanumeric
\* characters and underscores, between whitespace; the name is the
\* characters recognized.
parser_ident(input, errs) ==
  LET start == SkipSpaces(input)
      n == LeadingIn(start, Letters \cup Digits \cup { "_" })
  IN IF Remaining(start) > 0 /\ CharAt(start, 1) \in Letters \cup { "_" }
     THEN Parsed(SkipSpaces(Advance(start, n)), Fragment(start, n), errs)
     ELSE ParserFailed(start, errs)

\* str::parse::<i32>: the digits are accumulated with checked arithmetic,
\* downwards after a minus sign.
DigitValue(c) == (CHOOSE d \in 1..10 : DigitChars[d] = c) - 1

RECURSIVE parse_i32(_, _, _)
parse_i32(digits, negative, acc) ==
  IF digits = << >> THEN [ok |-> TRUE, v |-> acc]
  ELSE LET d == DigitValue(Head(digits)) IN
       IF negative
       THEN IF -acc > (MaxI32 - (IF d = 0 THEN 0 ELSE d - 1)) \div 10
            THEN [ok |-> FALSE, v |-> 0]
            ELSE parse_i32(Tail(digits), negative, acc * 10 - d)
       ELSE IF acc > (MaxI32 - d) \div 10
            THEN [ok |-> FALSE, v |-> 0]
            ELSE parse_i32(Tail(digits), negative, acc * 10 + d)

\* An optional minus sign and digits, between whitespace; unwrap() panics
\* when the digits are not an i32.
parser_integer(input, errs) ==
  LET start == SkipSpaces(input)
      negative == Remaining(start) > 0 /\ CharAt(start, 1) = "-"
      digits == IF negative THEN Advance(start, 1) ELSE start
      n == LeadingIn(digits, Digits)
  IN IF n = 0 THEN ParserFailed(digits, errs)
     ELSE With(parse_i32(Fragment(digits, n), negative, 0), LAMBDA i :
            IF i.ok THEN Parsed(SkipSpaces(Advance(digits, n)), integer(i.v), errs)
            ELSE ParserPanicked(start, errs))

\* epsilon_recover: the error names the line and the column of the input
\* and the token that was expected, and the input is handed back.
Excepted(line, col, token) == << line, col, "Excepted", token >>

epsilon_recover(token, input, errs) ==
  [tail |-> input,
   errs |-> ErrorContext_add(errs, Excepted(location_line(input), get_utf8_column(input),
                                            token))]

\* expect(parser, epsilon_recover(token)), r being what parser returned: a
\* failure becomes Ok(None) at the input of the error.
parser_expect(r, token) ==
  IF r.ok THEN Parsed(r.tail, Some(r.v), r.errs)
  ELSE IF r.panic THEN r
  ELSE With(epsilon_recover(token, r.tail, r.errs), LAMBDA recovered :
         Parsed(recovered.tail, None, recovered.errs))

RECURSIVE expr(_, _)
RECURSIVE block(_, _)

true_expr(input, errs) ==
  With(true_(input, errs), LAMBDA r :
    IF r.ok THEN Parsed(r.tail, bool_(TRUE), r.errs) ELSE r)

false_expr(input, errs) ==
  With(false_(input, errs), LAMBDA r :
    IF r.ok THEN Parsed(r.tail, bool_(FALSE), r.errs) ELSE r)

bool_expr(input, errs) ==
  With(true_expr(input, errs), LAMBDA r :
    IF Recoverable(r) THEN false_expr(input, r.errs) ELSE r)

ident_expr(input, errs) ==
  With(parser_ident(input, errs), LAMBDA r :
    IF r.ok THEN Parsed(r.tail, ident(r.v), r.errs) ELSE r)

if_else(input, errs) ==
  With(parser_if_(input, errs), LAMBDA kw_if :
    IF ~kw_if.ok THEN kw_if ELSE
  With(expr(kw_if.tail, kw_if.errs), LAMBDA condition :
    IF ~condition.ok THEN condition ELSE
  With(block(condition.tail, condition.errs), LAMBDA consequent :
    IF ~consequent.ok THEN consequent ELSE
  With(else_(consequent.tail, consequent.errs), LAMBDA kw_else :
    IF ~kw_else.ok THEN kw_else ELSE
  With(block(kw_else.tail, kw_else.errs), LAMBDA alternative :
    IF ~alternative.ok THEN alternative
    ELSE Parsed(alternative.tail, if_(condition.v, consequent.v, alternative.v),
                alternative.errs))))))

\* alt((integer, if_else, block, bool_expr, ident_expr))
atomic_expr(input, errs) ==
  With(parser_integer(input, errs), LAMBDA r1 :
    IF ~Recoverable(r1) THEN r1 ELSE
  With(if_else(input, r1.errs), LAMBDA r2 :
    IF ~Recoverable(r2) THEN r2 ELSE
  With(block(input, r2.errs), LAMBDA r3 :
    IF ~Recoverable(r3) THEN r3 ELSE
  With(bool_expr(input, r3.errs), LAMBDA r4 :
    IF ~Recoverable(r4) THEN r4 ELSE ident_expr(input, r4.errs)))))

\* fold_many1(tuple((star, atomic_expr)), first, multiplication): the fold
\* fails when its first turn does, and ends at the first turn that fails.
RECURSIVE level_1_fold(_, _, _, _)
level_1_fold(input, errs, acc, first_turn) ==
  With(star(input, errs), LAMBDA operator :
    IF operator.panic THEN operator
    ELSE IF ~operator.ok
    THEN IF first_turn THEN ParserFailed(input, operator.errs)
         ELSE Parsed(input, acc, operator.errs)
    ELSE
  With(atomic_expr(operator.tail, operator.errs), LAMBDA rhs :
    IF rhs.panic THEN rhs
    ELSE IF ~rhs.ok
    THEN IF first_turn THEN ParserFailed(input, rhs.errs) ELSE Parsed(input, acc, rhs.errs)
    ELSE level_1_fold(rhs.tail, rhs.errs, multiplication(acc, rhs.v), FALSE)))

level_1_expression(input, errs) ==
  With(atomic_expr(input, errs), LAMBDA first :
    IF ~first.ok THEN first ELSE level_1_fold(first.tail, first.errs, first.v, TRUE))

\* alt((tag("+"), tag("-")))
Plus == "Plus"
Minus == "Minus"

level_0_operator(input, errs) ==
  With(tag(<< "+" >>, input, errs), LAMBDA plus :
    IF plus.ok THEN Parsed(plus.tail, Plus, plus.errs)
    ELSE With(tag(<< "-" >>, input, plus.errs), LAMBDA minus :
           IF minus.ok THEN Parsed(minus.tail, Minus, minus.errs) ELSE minus))

\* Variant: the operands change sides.
Level0Operator_make_expr_swapped(self, lhs, rhs) ==
  IF self = Plus THEN addition(rhs, lhs) ELSE subtraction(rhs, lhs)

Level0Operator_make_expr(self, lhs, rhs) ==
  IF self = Plus THEN addition(lhs, rhs) ELSE subtraction(lhs, rhs)

\* alt((level_1_expression, atomic_expr))
level_0_operand(input, errs) ==
  With(level_1_expression(input, errs), LAMBDA r :
    IF Recoverable(r) THEN atomic_expr(input, r.errs) ELSE r)

RECURSIVE level_0_fold(_, _, _, _)
level_0_fold(input, errs, acc, first_turn) ==
  With(level_0_operator(input, errs), LAMBDA operator :
    IF operator.panic THEN operator
    ELSE IF ~operator.ok
    THEN IF first_turn THEN ParserFailed(input, operator.errs)
         ELSE Parsed(input, acc, operator.errs)
    ELSE
  With(level_0_operand(operator.tail, operator.errs), LAMBDA right :
    IF right.panic THEN right
    ELSE IF ~right.ok
    THEN IF first_turn THEN ParserFailed(input, right.errs) ELSE Parsed(input, acc, right.errs)
    ELSE level_0_fold(right.tail, right.errs,
                      Level0Operator_make_expr(operator.v, acc, right.v), FALSE)))

level_0_expression(input, errs) ==
  With(level_0_operand(input, errs), LAMBDA first :
    IF ~first.ok THEN first ELSE level_0_fold(first.tail, first.errs, first.v, TRUE))

\* alt((level_0_expression, level_1_expression, atomic_expr))
expr(input, errs) ==
  With(level_0_expression(input, errs), LAMBDA r0 :
    IF ~Recoverable(r0) THEN r0 ELSE
  With(level_1_expression(input, r0.errs), LAMBDA r1 :
    IF ~Recoverable(r1) THEN r1 ELSE atomic_expr(input, r1.errs)))

TokenEqual == << "=" >>
TokenSemicolon == << ";" >>

\* let, the name, `=` or its recovery; then the value, `;` or its recovery.
binding(input, errs) ==
  With(let_(input, errs), LAMBDA kw_let :
    IF ~kw_let.ok THEN kw_let ELSE
  With(parser_ident(kw_let.tail, kw_let.errs), LAMBDA name :
    IF ~name.ok THEN name ELSE
  With(parser_expect(equal(name.tail, name.errs), TokenEqual), LAMBDA eq :
    IF ~eq.ok THEN eq ELSE
  With(expr(eq.tail, eq.errs), LAMBDA value :
    IF ~value.ok THEN value ELSE
  With(parser_expect(semicolon(value.tail, value.errs), TokenSemicolon), LAMBDA semi :
    IF ~semi.ok THEN semi
    ELSE Parsed(semi.tail, Binding_new(name.v, value.v), semi.errs))))))

\* many1(binding)
RECURSIVE many1_binding(_, _, _)
many1_binding(input, errs, acc) ==
  With(binding(input, errs), LAMBDA b :
    IF b.panic THEN b
    ELSE IF ~b.ok
    THEN IF acc = << >> THEN ParserFailed(b.tail, b.errs) ELSE Parsed(input, acc, b.errs)
    ELSE many1_binding(b.tail, b.errs, Append(acc, b.v)))

parser_bindings(input, errs) ==
  With(many1_binding(input, errs, << >>), LAMBDA bs :
    IF ~bs.ok THEN bs ELSE
  With(expr(bs.tail, bs.errs), LAMBDA ending :
    IF ~ending.ok THEN ending
    ELSE Parsed(ending.tail, bindings(bs.v, ending.v), ending.errs)))

\* delimited(left_curly, alt((bindings, expr)), right_curly)
block(input, errs) ==
  With(left_curly(input, errs), LAMBDA opening :
    IF ~opening.ok THEN opening ELSE
  With(parser_bindings(opening.tail, opening.errs), LAMBDA bs :
  With(IF Recoverable(bs) THEN expr(opening.tail, bs.errs) ELSE bs, LAMBDA inner :
    IF ~inner.ok THEN inner ELSE
  With(right_curly(inner.tail, inner.errs), LAMBDA closing :
    IF ~closing.ok THEN closing ELSE Parsed(closing.tail, inner.v, closing.errs)))))

function(input, errs) ==
  With(keyword(KwFn, input, errs), LAMBDA kw_fn :
    IF ~kw_fn.ok THEN kw_fn ELSE
  With(parser_ident(kw_fn.tail, kw_fn.errs), LAMBDA name :
    IF ~name.ok THEN name ELSE
  With(left_par(name.tail, name.errs), LAMBDA opening :
    IF ~opening.ok THEN opening ELSE
  With(right_par(opening.tail, opening.errs), LAMBDA closing :
    IF ~closing.ok THEN closing ELSE
  With(block(closing.tail, closing.errs), LAMBDA body :
    IF ~body.ok THEN body
    ELSE Parsed(body.tail, Function_new(name.v, body.v), body.errs))))))

\* many0(function)
RECURSIVE many0_function(_, _, _)
many0_function(input, errs, acc) ==
  With(function(input, errs), LAMBDA f :
    IF f.panic THEN f
    ELSE IF ~f.ok THEN Parsed(input, acc, f.errs)
    ELSE many0_function(f.tail, f.errs, Append(acc, f.v)))

\* all_consuming(many0(function))
program_with_tail(input, errs) ==
  With(many0_function(input, errs, << >>), LAMBDA functions :
    IF ~functions.ok THEN functions
    ELSE IF Remaining(functions.tail) # 0 THEN ParserFailed(functions.tail, functions.errs)
    ELSE functions)

\* parse_input: the program is parsed in a fresh ParsingContext, and the
\* result is wrapped by the error context.
parse_input(input_code) ==
  With(program_with_tail(Span(input_code), << >>), LAMBDA parsed :
    [panic |-> parsed.panic,
     ok |-> ~parsed.panic /\ emit_possible_errors(parsed.errs, parsed.ok),
     parsed |-> parsed.ok,
     ast |-> IF parsed.ok THEN parsed.v ELSE << >>,
     errs |-> parsed.errs])

\* ------------------------------------------------------------------------
\* One source handed to a parser on its own, as the tests of parser.rs do
\* with parse_and_own, and whole sources handed to parse_input.
\* A source is written as a list of tokens; Text puts a separator after
\* every token and leaves out the tokens of the positions omitted.
\* ------------------------------------------------------------------------
MaxFollow == 2
MaxOperators == 2
MaxOmitted == 2

RECURSIVE Text(_, _, _, _)
Text(tokens, sep, omit, i) ==
  IF i > Len(tokens) THEN << >>
  ELSE (IF i \in omit THEN << >> ELSE tokens[i] \o sep) \o Text(tokens, sep, omit, i + 1)

Omissions(tokens) == { o \in SUBSET (1..Len(tokens)) : Cardinality(o) <= MaxOmitted }

Keywords == { KwIf, KwElse, KwLet, KwTrue, KwFalse, KwFn }

\* What follows the keyword in the source: letters, digits, an underscore,
\* whitespace, punctuation, or nothing.
FollowChars == { "f", "x", "1", "_", " ", "\n", "{" }

KeywordSources ==
  { lead \o kw \o follow :
      lead \in { << >>, << " " >> }, kw \in Keywords,
      follow \in SeqsUpTo(FollowChars, MaxFollow) }

\* Operands and the nodes they stand for.
OperandTokens ==
  { [text |-> << "1" >>, node |-> integer(1)],
    [text |-> << "1", "0" >>, node |-> integer(10)],
    [text |-> << "a" >>, node |-> ident(<< "a" >>)] }

OperatorTokens == { "+", "-", "*" }

\* operand (operator operand)*: the texts and the nodes side by side.
RECURSIVE OperandChains(_)
OperandChains(n) ==
  IF n = 0
  THEN { [text |-> << o.text >>, nodes |-> << o.node >>, ops |-> << >>] : o \in OperandTokens }
  ELSE { [text |-> c.text \o << << op >>, o.text >>,
          nodes |-> Append(c.nodes, o.node),
          ops |-> Append(c.ops, op)] :
           c \in OperandChains(n - 1), op \in OperatorTokens, o \in OperandTokens }

Chain(texts, values, ops) ==
  [text |-> texts, nodes |-> [i \in 1..Len(values) |-> integer(values[i])], ops |-> ops]

\* The sources of the tests add_and_sub and priority_simple.
TenTimesFourPlusTwo ==
  Chain(<< << "1", "0" >>, << "*" >>, << "4" >>, << "+" >>, << "2" >> >>,
        << 10, 4, 2 >>, << "*", "+" >>)
OnePlusOnePlusOne ==
  Chain(<< << "1" >>, << "+" >>, << "1" >>, << "+" >>, << "1" >> >>,
        << 1, 1, 1 >>, << "+", "+" >>)
FortyFourMinusOneMinusOne ==
  Chain(<< << "4", "4" >>, << "-" >>, << "1" >>, << "-" >>, << "1" >> >>,
        << 44, 1, 1 >>, << "-", "-" >>)
FortyTwoMinusOnePlusOne ==
  Chain(<< << "4", "2" >>, << "-" >>, << "1" >>, << "+" >>, << "1" >> >>,
        << 42, 1, 1 >>, << "-", "+" >>)

ExprChains ==
  UNION { OperandChains(n) : n \in 0..MaxOperators }
  \cup { TenTimesFourPlusTwo, OnePlusOnePlusOne, FortyFourMinusOneMinusOne,
         FortyTwoMinusOnePlusOne }

Separators == { << >>, << " " >> }

Tokens(words) == [i \in 1..Len(words) |-> words[i]]

\* let a = VALUE ;
ValueTokens ==
  { << << "1" >> >>,
    << << "b" >>, << "+" >>, << "1" >> >>,
    << << "{" >>, KwLet, << "b" >>, << "=" >>, << "1" >>, << ";" >>, << "b" >>, << "}" >> >>,
    << << "{" >>, << "{" >>, KwLet, << "b" >>, << "=" >>, << "1" >>, << ";" >>, << "b" >>,
       << "}" >>, << "}" >> >>,
    << KwIf, KwTrue, << "{" >>, << "1" >>, << "}" >>, KwElse, << "{" >>, << "2" >>,
       << "}" >> >> }

BindingTokens == { << KwLet, << "a" >>, << "=" >> >> \o v \o << << ";" >> >> : v \in ValueTokens }

\* fn main ( ) { BODY }
BodyTokens ==
  { << << "1" >> >>, << << "a" >>, << "*" >>, << "2" >> >> }
  \cup { b \o << << "a" >> >> : b \in BindingTokens }

Main == << "m", "a", "i", "n" >>

ProgramTokens ==
  { << KwFn, Main, << "(" >>, << ")" >>, << "{" >> >> \o b \o << << "}" >> >> : b \in BodyTokens }
  \cup { << >>,
         << KwFn, << "f" >>, << "(" >>, << ")" >>, << "{" >>, << "1" >>, << "}" >>,
            KwFn, Main, << "(" >>, << ")" >>, << "{" >>, << "2" >>, << "}" >> >>,
         << KwFn, Main, << "(" >>, << ")" >>, << "{" >>,
            << "2", "1", "4", "7", "4", "8", "3", "6", "4", "8" >>, << "}" >> >> }

BindingSeparators == { << " " >>, << "\n" >> }

ParseUnit(kind, src, from) ==
  [kind |-> kind, expr |-> src, start |-> from, done |-> FALSE,
   st |-> ParsedUnit, checked |-> FALSE, output |-> NotRun]

\* keyword(kw)(input), kw being unit.start.
ParseKeyword ==
  /\ unit.kind = "Keyword"
  /\ ~unit.done
  /\ unit' = [unit EXCEPT !.done = TRUE,
                          !.st = keyword(unit.start, Span(unit.expr), << >>)]
  /\ UNCHANGED <<program, pass, lowered, resolved>>
  /\ UNCHANGED vm_vars
  /\ UNCHANGED codec_vars

\* expr(input)
ParseExpr ==
  /\ unit.kind = "Expr"
  /\ ~unit.done
  /\ unit' = [unit EXCEPT !.done = TRUE, !.st = expr(Span(unit.expr), << >>)]
  /\ UNCHANGED <<program, pass, lowered, resolved>>
  /\ UNCHANGED vm_vars
  /\ UNCHANGED codec_vars

\* binding(input)
ParseBinding ==
  /\ unit.kind = "Binding"
  /\ ~unit.done
  /\ unit' = [unit EXCEPT !.done = TRUE, !.st = binding(Span(unit.expr), << >>)]
  /\ UNCHANGED <<program, pass, lowered, resolved>>
  /\ UNCHANGED vm_vars
  /\ UNCHANGED codec_vars

\* parse_input(input_code)
ParseInput ==
  /\ unit.kind = "Input"
  /\ ~unit.done
  /\ unit' = [unit EXCEPT !.done = TRUE, !.st = parse_input(unit.expr)]
  /\ UNCHANGED <<program, pass, lowered, resolved>>
  /\ UNCHANGED vm_vars
  /\ UNCHANGED codec_vars

InitParse ==
  /\ CodecIdle
  /\ VMIdle
  /\ program = << >> /\ pass = "Idle" /\ lowered = NothingLowered /\ resolved = << >>
  /\ \/ \E src \in KeywordSources, kw \in Keywords : unit = ParseUnit("Keyword", src, kw)
     \/ \E c \in ExprChains, sep \in Separators :
          unit = ParseUnit("Expr", Text(c.text, sep, {}, 1), c)
     \/ \E tokens \in BindingTokens, sep \in BindingSeparators :
          \E omit \in Omissions(tokens) :
            unit = ParseUnit("Binding", Text(tokens, sep, omit, 1),
                             [tokens |-> tokens, sep |-> sep, omit |-> omit])
     \/ \E tokens \in ProgramTokens, sep \in BindingSeparators :
          \E omit \in Omissions(tokens) :
            unit = ParseUnit("Input", Text(tokens, sep, omit, 1),
                             [tokens |-> tokens, sep |-> sep, omit |-> omit])

NextParse == ParseKeyword \/ ParseExpr \/ ParseBinding \/ ParseInput

SpecParse == InitParse /\ [][NextParse]_vars

\* ------------------------------------------------------------------------
\* The contexts on their own (dyl-compiler/src/context.rs): a LabelContext
\* or a StackContext and the calls made on it one after the other, as the
\* tests of context.rs make them.  unit.call keeps the call made last, its
\* arguments, what it returned and the context it was made on.
\* ------------------------------------------------------------------------
MaxLabels == 3
MaxNames == 3
MaxMarkers == 2

LabelPositions == { 0, 42, 101 }
ContextNames == { "foo", "bar" }

NoCall == [op |-> "None"]

\* LabelContext::new_anonymous
NewAnonymous ==
  /\ unit.kind = "Labels"
  /\ Len(unit.labels) < MaxLabels
  /\ LET r == LabelContext_new_anonymous(unit.labels) IN
       unit' = [unit EXCEPT !.labels = r.labels,
                            !.call = [op |-> "new_anonymous", returned |-> r.id,
                                      before |-> unit.labels]]
  /\ UNCHANGED <<program, pass, lowered, resolved>>
  /\ UNCHANGED vm_vars
  /\ UNCHANGED codec_vars

\* LabelContext::set_position
SetPosition ==
  /\ unit.kind = "Labels"
  /\ \E label_id \in 0..MaxLabels, pos \in LabelPositions :
       LET r == LabelContext_set_position(unit.labels, label_id, pos) IN
         unit' = [unit EXCEPT !.labels = r.labels,
                              !.call = [op |-> "set_position", label_id |-> label_id,
                                        pos |-> pos, ok |-> r.ok, err |-> r.err,
                                        before |-> unit.labels]]
  /\ UNCHANGED <<program, pass, lowered, resolved>>
  /\ UNCHANGED vm_vars
  /\ UNCHANGED codec_vars

\* LabelContext::resolve
ResolveLabel ==
  /\ unit.kind = "Labels"
  /\ \E label_id \in 0..MaxLabels :
       LET r == LabelContext_resolve(unit.labels, label_id) IN
         unit' = [unit EXCEPT !.call = [op |-> "resolve", label_id |-> label_id,
                                        ok |-> r.some, returned |-> r.v, err |-> r.err,
                                        before |-> unit.labels]]
  /\ UNCHANGED <<program, pass, lowered, resolved>>
  /\ UNCHANGED vm_vars
  /\ UNCHANGED codec_vars

\* StackContext::push_anonymous
PushAnonymous ==
  /\ unit.kind = "Stack"
  /\ Len(unit.names) < MaxNames
  /\ unit' = [unit EXCEPT !.names = StackContext_push_anonymous(unit.names),
                          !.call = [op |-> "push_anonymous", before |-> unit.names]]
  /\ UNCHANGED <<program, pass, lowered, resolved>>
  /\ UNCHANGED vm_vars
  /\ UNCHANGED codec_vars

\* StackContext::name_top_anonymous
NameTopAnonymous ==
  /\ unit.kind = "Stack"
  /\ \E name \in ContextNames :
       LET r == StackContext_name_top_anonymous(unit.names, name) IN
         unit' = [unit EXCEPT !.names = r.names,
                              !.call = [op |-> "name_top_anonymous", name |-> name,
                                        ok |-> r.ok, err |-> r.err, before |-> unit.names]]
  /\ UNCHANGED <<program, pass, lowered, resolved>>
  /\ UNCHANGED vm_vars
  /\ UNCHANGED codec_vars

\* StackContext::pop_top_anonymous
PopTopAnonymous ==
  /\ unit.kind = "Stack"
  /\ LET r == StackContext_pop_top_anonymous(unit.names) IN
       unit' = [unit EXCEPT !.names = r.names,
                            !.call = [op |-> "pop_top_anonymous", ok |-> r.ok, err |-> r.err,
                                      before |-> unit.names]]
  /\ UNCHANGED <<program, pass, lowered, resolved>>
  /\ UNCHANGED vm_vars
  /\ UNCHANGED codec_vars

\* StackContext::resolve
ResolveName ==
  /\ unit.kind = "Stack"
  /\ \E name \in ContextNames :
       LET r == StackContext_resolve(unit.names, name) IN
         unit' = [unit EXCEPT !.call = [op |-> "resolve", name |-> name, ok |-> r.some,
                                        returned |-> r.v, before |-> unit.names]]
  /\ UNCHANGED <<program, pass, lowered, resolved>>
  /\ UNCHANGED vm_vars
  /\ UNCHANGED codec_vars

\* StackContext::new_subcontext: the caller keeps the marker returned.
NewSubcontext ==
  /\ unit.kind = "Stack"
  /\ Len(unit.markers) < MaxMarkers
  /\ LET marker == StackContext_new_subcontext(unit.names) IN
       unit' = [unit EXCEPT !.markers = Append(@, marker),
                            !.call = [op |-> "new_subcontext", returned |-> marker,
                                      before |-> unit.names]]
  /\ UNCHANGED <<program, pass, lowered, resolved>>
  /\ UNCHANGED vm_vars
  /\ UNCHANGED codec_vars

\* StackContext::drop_subcontext with a marker the caller kept; the markers
\* taken after it are forgotten.
DropSubcontext ==
  /\ unit.kind = "Stack"
  /\ \E k \in 1..Len(unit.markers) :
       unit' = [unit EXCEPT
                  !.names = StackContext_drop_subcontext(unit.names, unit.markers[k]),
                  !.markers = SubSeq(@, 1, k - 1),
                  !.call = [op |-> "drop_subcontext", marker |-> unit.markers[k],
                            before |-> unit.names]]
  /\ UNCHANGED <<program, pass, lowered, resolved>>
  /\ UNCHANGED vm_vars
  /\ UNCHANGED codec_vars

\* Ident::lower on a fresh collector, the stack of the context being
\* unit.names.
LowerIdent ==
  /\ unit.kind = "Stack"
  /\ Len(unit.names) < MaxNames
  /\ \E name \in ContextNames :
       LET st == Ident_lower(ident(name), [LoweringContext_new EXCEPT !.names = unit.names])
       IN unit' = [unit EXCEPT !.names = st.names,
                               !.call = [op |-> "lower", name |-> name, ok |-> st.ok,
                                         collector |-> st.collector, errors |-> st.errs,
                                         before |-> unit.names]]
  /\ UNCHANGED <<program, pass, lowered, resolved>>
  /\ UNCHANGED vm_vars
  /\ UNCHANGED codec_vars

\* LabelContext::default() or StackContext::default()
InitContexts ==
  /\ CodecIdle
  /\ VMIdle
  /\ program = << >> /\ pass = "Idle" /\ lowered = NothingLowered /\ resolved = << >>
  /\ \/ unit = [kind |-> "Labels", labels |-> << >>, call |-> NoCall]
     \/ unit = [kind |-> "Stack", names |-> << >>, markers |-> << >>, call |-> NoCall]

NextContexts ==
  \/ NewAnonymous
  \/ SetPosition
  \/ ResolveLabel
  \/ PushAnonymous
  \/ NameTopAnonymous
  \/ PopTopAnonymous
  \/ ResolveName
  \/ NewSubcontext
  \/ DropSubcontext
  \/ LowerIdent

SpecContexts == InitContexts /\ [][NextContexts]_vars

\* ------------------------------------------------------------------------
\* Properties of the codec
\* ------------------------------------------------------------------------
RECURSIVE SumSize(_)
SumSize(l) == IF l = << >> THEN 0 ELSE Operation_SIZE[Head(l).op] + SumSize(Tail(l))

IsPrefix(a, b) == Len(a) <= Len(b) /\ a = SubSeq(b, 1, Len(a))

\* The operation whose opcode is b, for b in 0..12.
OperationWithID(b) == CHOOSE name \in OpNames : Operation_ID[name] = b

\* bs is the encoding of exactly one instruction: a known opcode followed by
\* as many operand bytes as the operation takes.
IsOneEncoding(bs) ==
  /\ bs # << >>
  /\ bs[1] <= 12
  /\ Len(bs) = Operation_SIZE[OperationWithID(bs[1])]

\* C2: decode_single_with_opcode applied to the bytes encode produced for an
\* instruction O returns O and leaves no byte; and when the slice is the
\* encoding of one instruction, decoding it with its operation succeeds and
\* encoding the result again gives the slice back.
C2_RoundTrip ==
  /\ (/\ phase = "decoded"
      /\ Len(source) = 1
      /\ bytes = buff
      /\ single.by = source[1].op) => single.r = DecodeOk(source[1], << >>)
  /\ (/\ phase \in {"decoded", "reencoded"}
      /\ IsOneEncoding(bytes)
      /\ single.by = OperationWithID(bytes[1])) => single.r.res = "Ok"
  /\ phase = "reencoded" => buff = bytes

\* A slice that did not come from encode is decoded to a push_i of a negative
\* number and encoded back.
C2_Witness ==
  /\ phase = "reencoded"
  /\ source = << >>
  /\ single.r.v.op = "PushI"
  /\ single.r.v.arg < 0
  /\ buff = bytes

\* The operands of an instruction, in wire order, as u16 and u32 values.
Operands(o) ==
  CASE o.op = "PushI" -> << AsU32(o.arg) >>
    [] o.op \in {"Call", "Goto"} -> << o.arg >>
    [] o.op \in {"PushCopy", "ResV", "PopCopy", "Pop"} -> << o.arg >>
    [] o.op = "Ret" -> << o.shrink_offset, o.ip_offset >>
    [] o.op = "CondJmp" -> << o.negative_addr, o.null_addr, o.positive_addr >>
    [] OTHER -> << >>

IsByte(b) == b \in 0..255

\* bs holds the value x with the most significant byte first.
IsBigEndian(bs, x) ==
  /\ \A k \in 1..Len(bs) : IsByte(bs[k])
  /\ IF Len(bs) = 2 THEN x = bs[1] * 256 + bs[2]
     ELSE /\ Len(bs) = 4
          /\ x.hi = bs[1] * 256 + bs[2]
          /\ x.lo = bs[3] * 256 + bs[4]

OperandWidth(o) == IF o.op \in {"PushCopy", "ResV", "PopCopy", "Pop", "Ret"} THEN 2 ELSE 4

\* C3: encoding an instruction O into a buffer keeps the bytes the buffer held
\* and appends SIZE(O) bytes: the opcode of O, then every operand of O most
\* significant byte first, an i32 as the u32 of its two's complement;
\* push_i(42) appends 0,0,0,0,42 and cond_jmp(101,69,13) appends
\* 9,0,0,0,101,0,0,0,69,0,0,0,13.
C3_EncodeAppends ==
  enc.instr # NoInstruction =>
    LET o == enc.instr
        w == OperandWidth(o)
        appended == Rest(buff, Len(enc.out))
    IN /\ IsPrefix(enc.out, buff)
       /\ Len(appended) = Operation_SIZE[o.op]
       /\ Len(appended) = 1 + w * Len(Operands(o))
       /\ appended[1] = Operation_ID[o.op]
       /\ \A k \in 1..Len(Operands(o)) :
            IsBigEndian(SubSeq(appended, 2 + w * (k - 1), 1 + w * k), Operands(o)[k])
       /\ o = push_i(42) => appended = << 0, 0, 0, 0, 42 >>
       /\ o = push_i(-1) => appended = << 0, 255, 255, 255, 255 >>
       /\ o = cond_jmp(U32(101), U32(69), U32(13)) =>
            appended = << 9, 0, 0, 0, 101, 0, 0, 0, 69, 0, 0, 0, 13 >>

\* cond_jmp(101, 69, 13) has been appended to a buffer that held bytes.
C3_Witness ==
  /\ enc.instr = cond_jmp(U32(101), U32(69), U32(13))
  /\ enc.out # << >>
  /\ Len(buff) = Len(enc.out) + 13

Finished(v) == [kind |-> "Finished", value |-> v]
Failed == outcome.kind \in {"Err", "Panic"}

\* The slot `off` below the top of s (off = 0 is the top).
Slot(s, off) == s[Len(s) - off]
Top(s) == Slot(s, 0)
DropTop(s, n) == SubSeq(s, 1, Len(s) - n)
TopIsInteger(s) == Len(s) >= 1 /\ Top(s).t = "Integer"
TopTwoAreIntegers(s) ==
  Len(s) >= 2 /\ Slot(s, 0).t = "Integer" /\ Slot(s, 1).t = "Integer"

\* The programs of dyl-vm/src/tests.rs end with the values the tests expect.
TestsPass ==
  (code \in TestPrograms /\ outcome # Running) =>
     outcome = Finished(Integer(IF code = typical_expr_execution THEN 101 ELSE 42))

\* C6: f_stop run on a stack holding exactly one value ends the run with that
\* value; run on an empty stack or on a stack of two or more values it ends
\* the run with a runtime error and no value.
C6_FStopSingleValue ==
  last.instr = f_stop =>
    IF Len(last.stack) = 1 THEN outcome = Finished(last.stack[1])
    ELSE IF Len(last.stack) = 0 THEN outcome = [kind |-> "Err", err |-> "FoundEmptyStack"]
    ELSE outcome = [kind |-> "Err", err |-> "StackNotSingleton"]

C6_Witness ==
  /\ last.instr = f_stop
  /\ Len(last.stack) >= 2
  /\ outcome.kind = "Err"

\* The instruction pointers an instruction may continue to from index at.
ContinueTargets(instr, at, s) ==
  CASE instr.op \in {"Call", "Goto"} -> { AsUsize(instr.arg) }
    [] instr.op = "CondJmp" ->
         { AsUsize(instr.negative_addr), AsUsize(instr.null_addr),
           AsUsize(instr.positive_addr) }
    [] instr.op = "Ret" ->
         { AsUsize(s[i].v) : i \in { j \in 1..Len(s) : s[j].t = "InstructionPointer" } }
    [] OTHER -> { at + 1 }

\* C7: before anything has run the stack is empty and the instruction pointer
\* is 0; a finished run was ended by f_stop; any other instruction either
\* continues at the next index or at a jump target of its own, or the run
\* fails; an instruction pointer outside the list ends the run with an error.
C7_OnlyFStopReturns ==
  /\ (last.instr = NoInstruction /\ outcome = Running) => (stack = << >> /\ ip = 0)
  /\ outcome.kind = "Finished" => (last.instr = f_stop /\ last.ip < Len(code))
  /\ (last.instr # NoInstruction /\ last.instr # f_stop) =>
        \/ outcome = Running /\ ip \in ContinueTargets(last.instr, last.ip, last.stack)
        \/ Failed
  /\ (outcome # Running /\ last.ip >= Len(code)) =>
        outcome = [kind |-> "Err", err |-> "NoInstructionAtIndex"]
  /\ (outcome = Running /\ last.instr # NoInstruction) => code[last.ip + 1] = last.instr

C7_Witness ==
  /\ last.instr = NoInstruction
  /\ last.ip >= Len(code)
  /\ last.stack # << >>
  /\ outcome.kind = "Err"

\* C8: call addr run at index i pushes InstructionPointer(i + 1) and continues
\* at addr; ret, when the slot ip_off below the top holds an instruction
\* pointer and the stack holds at least `shrink` values, reads that address
\* from the stack as it was before truncation, removes `shrink` values from
\* the top and continues at the address; function_simple ends with 42.
C8_CallRet ==
  /\ last.instr.op = "Call" =>
        /\ outcome = Running
        /\ stack = Append(last.stack, InstructionPointer(U32(last.ip + 1)))
        /\ ip = AsUsize(last.instr.arg)
  /\ (/\ last.instr.op = "Ret"
      /\ last.instr.ip_offset < Len(last.stack)
      /\ last.instr.shrink_offset <= Len(last.stack)
      /\ Slot(last.stack, last.instr.ip_offset).t = "InstructionPointer") =>
        /\ outcome = Running
        /\ stack = DropTop(last.stack, last.instr.shrink_offset)
        /\ ip = AsUsize(Slot(last.stack, last.instr.ip_offset).v)
  /\ (code = function_simple /\ outcome # Running) => outcome = Finished(Integer(42))

\* A ret whose return address lies among the values it removes.
C8_Witness ==
  /\ last.instr.op = "Ret"
  /\ outcome = Running
  /\ last.instr.ip_offset < last.instr.shrink_offset
  /\ Len(stack) = Len(last.stack) - last.instr.shrink_offset
  /\ last.stack[Len(last.stack) - last.instr.ip_offset] = InstructionPointer(U32(ip))

\* C9: cond_jmp run on a stack whose top is Integer(i) removes that value and
\* nothing else, and continues at neg when i < 0, at null when i = 0 and at
\* pos when i > 0.
C9_CondJmp ==
  (last.instr.op = "CondJmp" /\ TopIsInteger(last.stack)) =>
     /\ outcome = Running
     /\ stack = DropTop(last.stack, 1)
     /\ ip = AsUsize(IF Top(last.stack).v < 0 THEN last.instr.negative_addr
                     ELSE IF Top(last.stack).v = 0 THEN last.instr.null_addr
                     ELSE last.instr.positive_addr)

C9_Witness ==
  /\ last.instr.op = "CondJmp"
  /\ TopIsInteger(last.stack)
  /\ Top(last.stack).v < 0
  /\ last.instr.negative_addr # last.instr.positive_addr
  /\ last.instr.negative_addr # last.instr.null_addr
  /\ ip = AsUsize(last.instr.negative_addr)

\* C10: add_i and mul run on a stack whose two top values are integers never
\* fail: they replace the two values by their sum, respectively product,
\* modulo 2^32, and continue at the next instruction.
C10_AddMulWrap ==
  (last.instr.op \in {"AddI", "Mul"} /\ TopTwoAreIntegers(last.stack)) =>
     /\ outcome = Running
     /\ ip = last.ip + 1
     /\ stack = Append(DropTop(last.stack, 2),
                       Integer(IF last.instr.op = "AddI"
                               THEN WrappingAdd(Slot(last.stack, 0).v, Slot(last.stack, 1).v)
                               ELSE WrappingMul(Slot(last.stack, 0).v, Slot(last.stack, 1).v)))

\* An addition that leaves the i32 range has run.
C10_Witness ==
  /\ last.instr.op = "AddI"
  /\ TopTwoAreIntegers(last.stack)
  /\ AddOverflows(Slot(last.stack, 0).v, Slot(last.stack, 1).v)

OutOfBound == [kind |-> "Err", err |-> "OutOfBoundStackAccess"]
TypeMismatch == [kind |-> "Err", err |-> "TypeMismatch"]

\* C11: push_copy k run on a stack of depth d >= k + 1 pushes a copy of the
\* slot k below the top and leaves the slots below unchanged; run on a stack
\* of depth d < k + 1 it ends the run with OutOfBoundStackAccess and the
\* stack is as it was.
C11_PushCopy ==
  last.instr.op = "PushCopy" =>
     IF Len(last.stack) >= last.instr.arg + 1
     THEN /\ outcome = Running
          /\ ip = last.ip + 1
          /\ stack = Append(last.stack, Slot(last.stack, last.instr.arg))
     ELSE outcome = OutOfBound /\ stack = last.stack

\* push_copy has run with an offset that points below the bottom of a
\* stack that is not empty.
C11_Witness ==
  /\ last.instr.op = "PushCopy"
  /\ last.stack # << >>
  /\ Len(last.stack) < last.instr.arg + 1

\* C12: pop_copy k run on a stack that is not empty and whose depth d is at
\* least k removes the top value v, writes v over the slot k below the top of
\* the stack as it was before the removal, changes no other slot, and
\* continues at the next instruction; typical_expr_execution ends with 101.
C12_PopCopy ==
  /\ (/\ last.instr.op = "PopCopy"
      /\ Len(last.stack) >= 1
      /\ Len(last.stack) >= last.instr.arg) =>
        /\ outcome = Running
        /\ ip = last.ip + 1
        /\ Len(stack) = Len(last.stack) - 1
        /\ \A i \in 1..(Len(last.stack) - 1) :
              stack[i] = IF i = Len(last.stack) - last.instr.arg
                         THEN Top(last.stack) ELSE last.stack[i]
  /\ (code = typical_expr_execution /\ outcome # Running) =>
        outcome = Finished(Integer(101))

\* pop_copy 0 has run on a stack that is not empty, and the run has failed.
C12_Witness ==
  /\ last.instr.op = "PopCopy"
  /\ last.instr.arg = 0
  /\ Len(last.stack) >= 1
  /\ outcome = OutOfBound

\* C13: ret whose return address is readable and whose shrink count exceeds
\* the depth of the stack ends the run with OutOfBoundStackAccess.
C13_RetPastBottom ==
  (/\ last.instr.op = "Ret"
   /\ last.instr.ip_offset < Len(last.stack)
   /\ Slot(last.stack, last.instr.ip_offset).t = "InstructionPointer"
   /\ last.instr.shrink_offset > Len(last.stack)) =>
      outcome = OutOfBound

\* A ret that shrinks past the bottom has run and the run goes on with the
\* stack as it was.
C13_Witness ==
  /\ last.instr.op = "Ret"
  /\ last.instr.shrink_offset > Len(last.stack)
  /\ outcome = Running
  /\ stack = last.stack

\* C14: add_i, mul, neg and cond_jmp that pop an InstructionPointer, and ret
\* that finds an Integer in the slot ip_off below the top, end the run with
\* TypeMismatch; no value is produced.
C14_TypeMismatch ==
  /\ (/\ last.instr.op \in {"AddI", "Mul"}
      /\ Len(last.stack) >= 1
      /\ \/ Top(last.stack).t = "InstructionPointer"
         \/ Len(last.stack) >= 2 /\ Slot(last.stack, 1).t = "InstructionPointer") =>
        outcome = TypeMismatch
  /\ (/\ last.instr.op \in {"Neg", "CondJmp"}
      /\ Len(last.stack) >= 1
      /\ Top(last.stack).t = "InstructionPointer") =>
        outcome = TypeMismatch
  /\ (/\ last.instr.op = "Ret"
      /\ last.instr.ip_offset < Len(last.stack)
      /\ Slot(last.stack, last.instr.ip_offset).t = "Integer") =>
        outcome = TypeMismatch

\* add_i has popped an Integer and then an InstructionPointer.
C14_Witness ==
  /\ last.instr.op = "AddI"
  /\ Len(last.stack) >= 2
  /\ Top(last.stack).t = "Integer"
  /\ Slot(last.stack, 1).t = "InstructionPointer"
  /\ outcome = TypeMismatch

\* ------------------------------------------------------------------------
\* Properties of the compiler
\* ------------------------------------------------------------------------
\* `lhs - rhs` modulo 2^32, as a two's-complement i32.
WrappingSub(lhs, rhs) ==
  IF rhs < 0 /\ lhs > MaxI32 + rhs
  THEN ((lhs - MaxI32) - 1) - ((rhs + MaxI32) + 1)
  ELSE IF rhs > 0 /\ lhs < MinI32 + rhs
  THEN ((lhs + MaxI32) + 1) - ((rhs - MaxI32) - 1)
  ELSE lhs - rhs

\* The value bound to name by the innermost binding of env.
Lookup(env, name) ==
  env[CHOOSE i \in 1..Len(env) :
        env[i].name = name /\ \A j \in (i + 1)..Len(env) : env[j].name # name].v

\* The source semantics: the value of an expression in an environment, with
\* wrapping i32 arithmetic, bindings evaluated in order, `if` choosing its
\* consequent on true and its alternative on false.
RECURSIVE Eval(_, _)
RECURSIVE EvalDefines(_, _)
EvalDefines(defines, env) ==
  IF defines = << >> THEN env
  ELSE EvalDefines(Tail(defines),
         Append(env, [name |-> Head(defines).name, v |-> Eval(Head(defines).value, env)]))

Eval(e, env) ==
  CASE e.k = "Integer" -> e.value
    [] e.k = "Bool" -> e.value
    [] e.k = "Ident" -> Lookup(env, e.name)
    [] e.k = "Addition" -> WrappingAdd(Eval(e.left, env), Eval(e.right, env))
    [] e.k = "Subtraction" -> WrappingSub(Eval(e.left, env), Eval(e.right, env))
    [] e.k = "Multiplication" -> WrappingMul(Eval(e.left, env), Eval(e.right, env))
    [] e.k = "If" -> IF Eval(e.condition, env) THEN Eval(e.consequent, env)
                     ELSE Eval(e.alternative, env)
    [] e.k = "Bindings" -> Eval(e.ending_expression, EvalDefines(e.defines, env))

MainBody == program[main_fn_data(program)].body

\* The run of a compiled program is over.
RunOver == pass = "Running" /\ outcome # Running

\* In a build without overflow checks, the run of a compiled program ends
\* with the value of the body of main, and the passes do not panic.
RefinementWhenWrapping ==
  /\ (~overflow_checks /\ RunOver) => outcome = Finished(Integer(Eval(MainBody, << >>)))
  /\ pass # "Panic"
  /\ Len(stack) <= MaxStack

\* C1: for every program the parser and the type checker accept, the run of
\* its resolved lowered instructions ends with Integer(v), v being the value
\* of the body of main under the source semantics.
C1_Refinement ==
  RunOver => outcome = Finished(Integer(Eval(MainBody, << >>)))

\* The run of `let a = 40; let b = 2; a + b` has ended with Integer(42).
C1_Witness ==
  /\ RunOver
  /\ MainBody.k = "Bindings"
  /\ Len(MainBody.defines) = 2
  /\ outcome = Finished(Integer(42))

\* The run of a compiled program has executed the instruction at last.ip.
Stepped == pass = "Running" /\ last.instr # NoInstruction

\* The depth the lowerer tracked when it pushed the instruction run last.
TrackedDepth == lowered.depths[last.ip + 1]

\* The run of a compiled program meets no runtime error: it goes on, ends
\* with one integer, or is aborted by an arithmetic overflow.
NoRuntimeError ==
  pass = "Running" =>
     \/ outcome = Running
     \/ outcome.kind = "Finished" /\ Len(last.stack) = 1 /\ outcome.value.t = "Integer"
     \/ outcome.kind = "Panic" /\ last.instr.op \in {"AddI", "Neg"}

\* C15: in the run of the code lowered from a type-checked program, the
\* depth of the runtime stack before each instruction is the depth the
\* lowerer tracked when it pushed that instruction -- one less for the `pop`
\* that closes a let block, pushed before the lowerer updates its stack --
\* and the run meets no out-of-bounds access and no type mismatch, and f_stop
\* finds exactly one value.
C15_DepthTracked ==
  /\ Stepped =>
        Len(last.stack) = TrackedDepth - (IF last.instr.op = "Pop" THEN 1 ELSE 0)
  /\ NoRuntimeError

\* A push_copy lowered from an identifier has run below a temporary.
C15_Witness ==
  /\ Stepped
  /\ last.instr.op = "PushCopy"
  /\ last.instr.arg >= 1
  /\ Len(last.stack) = TrackedDepth
  /\ outcome = Running

\* C15 as stated: the depth of the runtime stack before every instruction,
\* `pop` included, is the depth the lowerer tracked when it pushed it.
C15_DepthAtEveryInstruction ==
  /\ Stepped => Len(last.stack) = TrackedDepth
  /\ NoRuntimeError

\* A node was lowered on its own and lowering returned Ok(()).
LoweredValid == unit.kind = "Lower" /\ unit.done /\ unit.st.ok

\* C16: lowering a valid expression (an integer, a bool, a bound identifier,
\* a sum, a difference, a product, an if, a let block) from any compile-time
\* stack does not panic and leaves that stack with one more slot than it had,
\* the new top slot anonymous and the slots below it as they were; started
\* from the empty stack it ends with depth 1 and an anonymous top.
C16_OneAnonymousPushed ==
  LoweredValid =>
    /\ ~unit.st.panicked
    /\ Len(unit.st.names) = Len(unit.start) + 1
    /\ unit.st.names[Len(unit.st.names)] = ""
    /\ SubSeq(unit.st.names, 1, Len(unit.start)) = unit.start
    /\ unit.start = << >> => unit.st.names = << "" >>

\* A let block that shadows a and reads b in an if was lowered from a stack
\* that holds a and b.
C16_Witness ==
  /\ LoweredValid
  /\ unit.start = << "a", "b" >>
  /\ unit.expr.k = "Bindings"
  /\ Len(unit.expr.defines) = 2
  /\ unit.expr.ending_expression.k = "If"
  /\ unit.st.names = << "a", "b", "" >>

\* The lowerer has run on the program and returned Ok(()).
LoweringDone == pass \in { "Lowered", "Resolved", "Running" }

\* The body of main lowered on its own, from a fresh context.
MainLowered == ExprKind_lower(MainBody, LoweringContext_new)

\* What follows f_stop: the functions other than the first main, as the
\* source orders them, each one its body and then pop_copy 1 and ret.
RECURSIVE OthersInSourceOrder(_, _)
OthersInSourceOrder(idx, st) ==
  IF idx > Len(program) THEN st.collector
  ELSE IF idx = main_fn_data(program) THEN OthersInSourceOrder(idx + 1, st)
       ELSE OthersInSourceOrder(idx + 1,
              push(push(ExprKind_lower(program[idx].body, st), Instruction_pop_copy(1)),
                   Instruction_ret))

\* C17: whatever the position of main in the function list, the lowered
\* instructions start at index 0 with the body of main, f_stop follows in
\* place of the pop_copy 1 and ret of main, so that no ret is left for main,
\* and the other functions come after it in the order of the source.
C17_MainFirst ==
  LoweringDone =>
    LET body == MainLowered.collector
        n == Len(body)
    IN /\ Len(lowered.instrs) > n
       /\ SubSeq(lowered.instrs, 1, n) = body
       /\ lowered.instrs[n + 1] = Instruction_f_stop
       /\ \A i \in 1..(n + 1) : lowered.instrs[i] # Instruction_ret
       /\ lowered.instrs = OthersInSourceOrder(1, push(MainLowered, Instruction_f_stop))

\* main stands between two functions; the code of the one before it comes
\* after f_stop and ends with a ret, and so does the code of the one after.
C17_Witness ==
  /\ LoweringDone
  /\ Len(program) = 3
  /\ main_fn_data(program) = 2
  /\ lowered.instrs[Len(MainLowered.collector) + 1] = Instruction_f_stop
  /\ Cardinality({ i \in 1..Len(lowered.instrs) : lowered.instrs[i] = Instruction_ret }) = 2
  /\ lowered.instrs[Len(lowered.instrs)] = Instruction_ret

\* The label identifiers an unresolved instruction refers to, and the
\* targets a resolved one jumps to.
ReferencedLabels(instr) ==
  CASE instr.uop = "Goto" -> { instr.arg }
    [] instr.uop = "CondJmp" -> { instr.negative, instr.null, instr.positive }
    [] OTHER -> {}

JumpTargets(instr) ==
  CASE instr.op = "Goto" -> { AsUsize(instr.arg) }
    [] instr.op = "CondJmp" ->
         { AsUsize(instr.negative_addr), AsUsize(instr.null_addr), AsUsize(instr.positive_addr) }
    [] OTHER -> {}

\* C18: once a program is lowered with success, set_position has been called
\* exactly once with every label identifier a goto or a cond_jmp refers to
\* and the label holds a position; the resolution of the labels then never
\* fails, and every target of a resolved goto or cond_jmp is the index of an
\* instruction, in [0, number of instructions).
C18_LabelsResolved ==
  /\ LoweringDone =>
        \A i \in 1..Len(lowered.instrs) : \A id \in ReferencedLabels(lowered.instrs[i]) :
          /\ id < Len(lowered.labels)
          /\ lowered.labels[id + 1].some
          /\ lowered.labels[id + 1].v < Len(lowered.instrs)
          /\ Cardinality({ k \in 1..Len(lowered.sets) : lowered.sets[k] = id }) = 1
  /\ pass # "Panic"
  /\ pass \in { "Resolved", "Running" } =>
        /\ Len(resolved) = Len(lowered.instrs)
        /\ \A i \in 1..Len(resolved) :
             /\ resolved[i] # unresolved
             /\ \A t \in JumpTargets(resolved[i]) : t < Len(resolved)

\* Two functions with an if each were resolved: six labels, the jumps of the
\* second function going past the code of the first.
C18_Witness ==
  /\ pass = "Resolved"
  /\ Len(lowered.labels) >= 6
  /\ Cardinality({ i \in 1..Len(resolved) : resolved[i].op = "CondJmp" }) >= 2
  /\ \E i \in 1..Len(resolved) :
       /\ resolved[i].op = "Goto"
       /\ AsUsize(resolved[i].arg) = Len(resolved) - 2

\* fn main() { if 1 { 42 } else { -1 } } and fn main() { if true { 42 } else { -1 } }
IfOneProgram == just_main(if_(integer(1), integer(42), integer(-1)))
IfTrueProgram == just_main(if_(bool_(TRUE), integer(42), integer(-1)))

\* No pass has refused the program or panicked.
Accepted == pass \notin { "TypeError", "LoweringError", "Panic" }

\* C19: fn main() { if 1 { 42 } else { -1 } } is refused by the type checker,
\* its condition being an Int, and is neither lowered nor run; with the
\* condition true the program is accepted by the type checker, the lowerer
\* and the label resolution, and the run of its bytecode yields Integer(42).
C19_IfConditionIsBool ==
  /\ program = IfOneProgram => pass \in { "Parsed", "TypeError" }
  /\ program = IfTrueProgram =>
        /\ Accepted
        /\ pass = "Running" => outcome \in { Running, Finished(Integer(42)) }

\* The run of fn main() { if true { 42 } else { -1 } } has ended with
\* Integer(42), the goto of the consequent having been taken.
C19_Witness ==
  /\ program = IfTrueProgram
  /\ RunOver
  /\ outcome = Finished(Integer(42))
  /\ last.instr = f_stop
  /\ resolved[4].op = "Goto"

\* C19 as the specification has it: fn main() { if 1 { 42 } else { -1 } } is
\* accepted by every pass and its run yields Integer(42).
C19_IfOneYields42 ==
  program = IfOneProgram =>
    /\ Accepted
    /\ pass = "Running" => outcome \in { Running, Finished(Integer(42)) }

\* A sum, a difference or a product was type-checked on its own.
ArithmeticTyped ==
  /\ unit.kind = "Type"
  /\ unit.done
  /\ unit.expr.k \in { "Addition", "Subtraction", "Multiplication" }

\* Whether checking an operand in the context of the node succeeds, and the
\* type of the operand there, "None" when it has none.
OperandChecks(e) == ExprKind_check_inputs(e, unit.start).ok

OperandType(e) ==
  LET output == ExprKind_get_output(e, unit.start) IN
  IF output.ok THEN output.ty ELSE "None"

\* C20: the type check of a + b, a - b or a * b fails exactly when the check
\* of an operand fails or the type of an operand is Bool; operands that
\* check and whose types are Int or Err are accepted; the output type of the
\* node is Int whatever the operands are.
C20_ArithmeticOperands ==
  ArithmeticTyped =>
    LET l == unit.expr.left
        r == unit.expr.right
    IN /\ ~unit.checked <=>
            \/ ~OperandChecks(l) \/ ~OperandChecks(r)
            \/ OperandType(l) = "Bool" \/ OperandType(r) = "Bool"
       /\ ( /\ OperandChecks(l) /\ OperandChecks(r)
            /\ OperandType(l) \in { "Int", "Err" }
            /\ OperandType(r) \in { "Int", "Err" } ) => unit.checked
       /\ unit.output = [ok |-> TRUE, ty |-> "Int"]
       /\ unit.st = unit.start

\* a * b was accepted where a is bound to the type Err and b to Int.
C20_Witness ==
  /\ ArithmeticTyped
  /\ unit.expr = multiplication(ident("a"), ident("b"))
  /\ OperandType(unit.expr.left) = "Err"
  /\ OperandType(unit.expr.right) = "Int"
  /\ unit.checked

\* An if was type-checked on its own.
IfTyped == unit.kind = "Type" /\ unit.done /\ unit.expr.k = "If"

\* Two types unify when they are equal or one of them is Err; the unified
\* type is the one that is not Err.
Unifies(t, u) == t = u \/ t = "Err" \/ u = "Err"
Unified(t, u) == IF t = "Err" THEN u ELSE t

\* C21: the type check of `if c { e1 } else { e2 }` succeeds exactly when the
\* three children check, the type of c is Bool or Err, and the types of e1
\* and e2 unify, being equal or one of them Err; the output of the node is
\* then the unified type, and branches of types Int and Bool are an error of
\* both check_inputs and get_output.
C21_IfTyping ==
  IfTyped =>
    LET c == unit.expr.condition
        t1 == OperandType(unit.expr.consequent)
        t2 == OperandType(unit.expr.alternative)
    IN /\ unit.checked <=>
            /\ OperandChecks(c)
            /\ OperandChecks(unit.expr.consequent)
            /\ OperandChecks(unit.expr.alternative)
            /\ OperandType(c) \in { "Bool", "Err" }
            /\ t1 \in Tys /\ t2 \in Tys /\ Unifies(t1, t2)
       /\ (t1 \in Tys /\ t2 \in Tys) =>
            IF Unifies(t1, t2)
            THEN unit.output = [ok |-> TRUE, ty |-> Unified(t1, t2)]
            ELSE ~unit.output.ok /\ ~unit.checked
       /\ { t1, t2 } = { "Int", "Bool" } => ~unit.output.ok /\ ~unit.checked
       /\ unit.st = unit.start

\* if b { a } else { 3 } was accepted with the output Int, where b is bound
\* to Bool and a to Err.
C21_Witness ==
  /\ IfTyped
  /\ unit.expr.condition = ident("b")
  /\ unit.expr.consequent = ident("a")
  /\ unit.expr.alternative = integer(3)
  /\ OperandType(unit.expr.condition) = "Bool"
  /\ OperandType(unit.expr.consequent) = "Err"
  /\ unit.checked
  /\ unit.output = [ok |-> TRUE, ty |-> "Int"]

\* A let block was type-checked on its own.
LetTyped == unit.kind = "Type" /\ unit.done /\ unit.expr.k = "Bindings"

\* The type a typing environment gives a name: that of its last binding of
\* the name, "None" when it has none.
TypeOfName(env, name) ==
  LET hits == { i \in 1..Len(env) : env[i].name = name } IN
  IF hits = {} THEN "None" ELSE env[CHOOSE i \in hits : \A j \in hits : j <= i].ty

\* The environment the k first bindings of the block make of the one the
\* block starts in: each name bound to the output type of its value there,
\* Err when the value has none.
RECURSIVE EnvAfter(_)
EnvAfter(k) ==
  IF k = 0 THEN unit.start
  ELSE LET env == EnvAfter(k - 1)
           value_ty == ExprKind_get_output(unit.expr.defines[k].value, env)
       IN Append(env, [name |-> unit.expr.defines[k].name,
                       ty |-> IF value_ty.ok THEN value_ty.ty ELSE "Err"])

\* C22: the type check of a let block binds each name to the output type of
\* its value, so that the next bindings and the body are checked and typed
\* with it, the innermost binding of a name being the one that is seen; once
\* the block is checked the typing environment is what it was before.
C22_LetScope ==
  LetTyped =>
    LET n == Len(unit.expr.defines)
        body == unit.expr.ending_expression
        body_ty == ExprKind_get_output(body, EnvAfter(n))
    IN /\ unit.checked <=>
            /\ \A k \in 1..n :
                 ExprKind_check_inputs(unit.expr.defines[k].value, EnvAfter(k - 1)).ok
            /\ ExprKind_check_inputs(body, EnvAfter(n)).ok
       /\ unit.output = [ok |-> body_ty.ok, ty |-> body_ty.ty]
       /\ body.k = "Ident" =>
            IF TypeOfName(EnvAfter(n), body.name) = "None" THEN ~unit.output.ok
            ELSE unit.output = [ok |-> TRUE, ty |-> TypeOfName(EnvAfter(n), body.name)]
       /\ \A k \in 1..n : unit.expr.defines[k].value.k = "Ident" =>
            EnvAfter(k)[Len(unit.start) + k].ty =
              LET t == TypeOfName(EnvAfter(k - 1), unit.expr.defines[k].value.name)
              IN IF t = "None" THEN "Err" ELSE t
       /\ ExprKind_check_inputs(unit.expr, unit.start).ctxt = unit.start
       /\ unit.st = unit.start

\* `let a = true; let a = a + 1; a` was checked where a was bound to Int:
\* the second value saw the Bool and was refused, the body saw the second
\* binding, an Int, and the environment is back to a: Int.
C22_Witness ==
  /\ LetTyped
  /\ unit.start = TypingContext_add_binding(<< >>, "a", "Int")
  /\ Len(unit.expr.defines) = 2
  /\ unit.expr.defines[1].value = bool_(TRUE)
  /\ unit.expr.defines[2].name = "a"
  /\ unit.expr.defines[2].value.k = "Addition"
  /\ unit.expr.ending_expression = ident("a")
  /\ ~unit.checked
  /\ unit.output = [ok |-> TRUE, ty |-> "Int"]
  /\ unit.st = unit.start

\* An identifier of e is read where no binding of its name is in scope,
\* the names of bound being in scope where e starts.
RECURSIVE UsesUnbound(_, _)
RECURSIVE DefinesUseUnbound(_, _, _)
DefinesUseUnbound(defines, ending, bound) ==
  IF defines = << >> THEN UsesUnbound(ending, bound)
  ELSE \/ UsesUnbound(Head(defines).value, bound)
       \/ DefinesUseUnbound(Tail(defines), ending, bound \cup { Head(defines).name })

UsesUnbound(e, bound) ==
  CASE e.k \in { "Integer", "Bool" } -> FALSE
    [] e.k = "Ident" -> e.name \notin bound
    [] e.k \in { "Addition", "Subtraction", "Multiplication" } ->
         UsesUnbound(e.left, bound) \/ UsesUnbound(e.right, bound)
    [] e.k = "If" ->
         \/ UsesUnbound(e.condition, bound)
         \/ UsesUnbound(e.consequent, bound)
         \/ UsesUnbound(e.alternative, bound)
    [] e.k = "Bindings" -> DefinesUseUnbound(e.defines, e.ending_expression, bound)

\* The type checker has run on the program.
TypeChecked == pass \notin { "Idle", "Parsed" }

\* C23: the type-checking pass succeeds exactly when the check of the inputs
\* of the body of main found no type error and the output type of the body
\* is Int; a program whose main body has the type Bool, or reads an unbound
\* identifier, is rejected.
C23_PassResult ==
  (TypeChecked /\ main_fn_data(program) # 0) =>
    LET inputs == ExprKind_check_inputs(MainBody, << >>)
        output == ExprKind_get_output(MainBody, << >>)
    IN /\ pass # "TypeError" <=> (inputs.ok /\ output.ok /\ output.ty = "Int")
       /\ (output.ok /\ output.ty = "Bool") => pass = "TypeError"
       /\ UsesUnbound(MainBody, {}) => pass = "TypeError"

\* A main whose body is `true` checks without a type error, outputs Bool and
\* is rejected.
C23_Witness ==
  /\ TypeChecked
  /\ program = just_main(bool_(TRUE))
  /\ ExprKind_check_inputs(MainBody, << >>).ok
  /\ pass = "TypeError"

\* The names of the identifiers of e that are read where no binding of
\* their name is in scope, one per occurrence, in the order of the source.
RECURSIVE UnboundInOrder(_, _)
RECURSIVE DefinesUnboundInOrder(_, _, _)
DefinesUnboundInOrder(defines, ending, bound) ==
  IF defines = << >> THEN UnboundInOrder(ending, bound)
  ELSE UnboundInOrder(Head(defines).value, bound)
       \o DefinesUnboundInOrder(Tail(defines), ending, bound \cup { Head(defines).name })

UnboundInOrder(e, bound) ==
  CASE e.k \in { "Integer", "Bool" } -> << >>
    [] e.k = "Ident" -> IF e.name \in bound THEN << >> ELSE << e.name >>
    [] e.k \in { "Addition", "Subtraction", "Multiplication" } ->
         UnboundInOrder(e.left, bound) \o UnboundInOrder(e.right, bound)
    [] e.k = "If" ->
         UnboundInOrder(e.condition, bound) \o UnboundInOrder(e.consequent, bound)
         \o UnboundInOrder(e.alternative, bound)
    [] e.k = "Bindings" -> DefinesUnboundInOrder(e.defines, e.ending_expression, bound)

\* A node was lowered on its own.
LoweredAlone == unit.kind = "Lower" /\ unit.done

\* The names of the slots of the stack the node was lowered from.
NamesInScope == { unit.start[i] : i \in 1..Len(unit.start) } \ { "" }

\* C24: lowering an undefined identifier records an Undefined variable error
\* for it and returns Err for the node, and the lowering goes on with the
\* nodes that follow: the errors recorded are one per occurrence of an
\* undefined identifier, in the order of the source (b, d, e for
\* `let a = b; let c = d; e`), and the result of a node is Err exactly when
\* one of them was recorded.
C24_UndefinedVariables ==
  LoweredAlone =>
    LET undefined == UnboundInOrder(unit.expr, NamesInScope) IN
    /\ ~unit.st.panicked
    /\ unit.st.errs = [i \in 1..Len(undefined) |-> UndefinedVariable(undefined[i])]
    /\ unit.st.ok <=> undefined = << >>
    /\ unit.st.names = Append(unit.start, "")

\* `let a = b; let c = d; e` was lowered from the empty stack.
C24_Witness ==
  /\ LoweredAlone
  /\ unit.start = << >>
  /\ unit.expr.k = "Bindings"
  /\ ~unit.st.ok
  /\ unit.st.errs =
       << UndefinedVariable("b"), UndefinedVariable("d"), UndefinedVariable("e") >>

\* lower_ast has returned.
LowerAstReturned == pass \in { "Lowered", "LoweringError", "Resolved", "Running" }

\* C25: lower_ast returns a failed pass result exactly when the list of
\* errors holds an error at the end of the lowering, that is when a function
\* reads an undefined identifier; it then returns the number of errors and
\* no instruction; otherwise it returns the context and the instructions
\* that were lowered.
C25_LowerAstResult ==
  LowerAstReturned =>
    LET st == Program_lower(program, LoweringContext_new) IN
    /\ pass = "LoweringError" <=> st.errs # << >>
    /\ pass = "LoweringError" <=>
         \E i \in 1..Len(program) : UsesUnbound(program[i].body, {})
    /\ pass = "LoweringError" =>
         /\ lowered.instrs = << >>
         /\ lowered.errors = Len(st.errs)
         /\ lowered.errors >= 1
    /\ pass # "LoweringError" =>
         /\ st.ok
         /\ lowered.errors = 0
         /\ lowered.instrs = st.collector
         /\ lowered.labels = st.labels

\* A program whose main is well typed and whose other function reads an
\* undefined identifier passed the type checker and failed in lower_ast with
\* one error.
C25_Witness ==
  /\ pass = "LoweringError"
  /\ Len(program) = 2
  /\ main_fn_data(program) = 1
  /\ program[2].body = ident("x")
  /\ lowered.errors = 1
  /\ lowered.instrs = << >>

\* ------------------------------------------------------------------------
\* Properties of the parser
\* ------------------------------------------------------------------------
KeywordParsed == unit.kind = "Keyword" /\ unit.done

\* The source holds the keyword asked for after its leading whitespace.
KeywordPresent == tag(unit.start, SkipSpaces(Span(unit.expr)), << >>).ok

AfterKeyword == tag(unit.start, SkipSpaces(Span(unit.expr)), << >>).tail

\* The character right after the keyword is one of S.
FollowedBy(S) ==
  /\ KeywordPresent
  /\ Remaining(AfterKeyword) > 0
  /\ CharAt(AfterKeyword, 1) \in S

IdentifierChars == Letters \cup Digits \cup { "_" }

\* C29 as stated: a keyword is matched only when the character right after
\* it is not a letter, a digit or an underscore; before such a character
\* the keyword parser fails and hands its input back whole.
C29_KeywordBeforeIdentifierChar ==
  KeywordParsed =>
    /\ unit.st.ok => KeywordPresent /\ ~FollowedBy(IdentifierChars)
    /\ FollowedBy(IdentifierChars) => ~unit.st.ok /\ unit.st.tail = Span(unit.expr)

\* C29, amended: a keyword is matched exactly when the character right
\* after it is not alphabetic, so it is matched before a digit and before an
\* underscore, and the tail starts after the whitespace that follows the
\* keyword; before a letter the keyword parser fails and hands its input
\* back whole.
C29_KeywordBeforeLetter ==
  KeywordParsed =>
    /\ unit.st.ok <=> KeywordPresent /\ ~FollowedBy(Letters)
    /\ unit.st.ok => unit.st.tail = SkipSpaces(AfterKeyword)
    /\ FollowedBy(Letters) => ~unit.st.ok /\ unit.st.tail = Span(unit.expr)
    /\ unit.st.errs = << >>

\* `let` asked of `let1`, the tests' `if42`: the keyword is matched and the
\* tail starts at the digit.
C29_Witness ==
  /\ KeywordParsed
  /\ unit.start = KwLet
  /\ unit.expr = << "l", "e", "t", "1" >>
  /\ unit.st.ok
  /\ unit.st.tail.at = 3

ExprParsed == unit.kind = "Expr" /\ unit.done

Joined(sum, op, product) ==
  IF op = "" THEN product
  ELSE IF op = "+" THEN addition(sum, product) ELSE subtraction(sum, product)

\* The tree of operand (operator operand)* when `*` binds tighter than `+`
\* and `-` and both levels associate to the left: the products are closed
\* into the sum from left to right.
RECURSIVE LeftSpine(_, _, _, _, _)
LeftSpine(chain, i, sum, op, product) ==
  IF i > Len(chain.ops) THEN Joined(sum, op, product)
  ELSE IF chain.ops[i] = "*"
       THEN LeftSpine(chain, i + 1, sum, op, multiplication(product, chain.nodes[i + 1]))
       ELSE LeftSpine(chain, i + 1, Joined(sum, op, product), chain.ops[i],
                      chain.nodes[i + 1])

Precedence(chain) == LeftSpine(chain, 1, integer(0), "", chain.nodes[1])

ParsesAs(chain, tree) ==
  unit.start = chain => unit.st.ok /\ unit.st.v = tree /\ Remaining(unit.st.tail) = 0

\* C28: `*` binds tighter than `+` and `-` and both levels are
\* left-associative: a chain of operands and operators, written with or
\* without spaces, is parsed whole into its left spine of products, and
\* `10 * 4 + 2` is (10*4)+2, `1+1+1` is (1+1)+1, `44-1-1` is (44-1)-1 and
\* `42-1+1` is (42-1)+1.
C28_PrecedenceAndAssociativity ==
  ExprParsed =>
    /\ unit.st.ok /\ unit.st.v = Precedence(unit.start)
    /\ Remaining(unit.st.tail) = 0
    /\ unit.st.errs = << >>
    /\ ParsesAs(TenTimesFourPlusTwo,
                addition(multiplication(integer(10), integer(4)), integer(2)))
    /\ ParsesAs(OnePlusOnePlusOne, addition(addition(integer(1), integer(1)), integer(1)))
    /\ ParsesAs(FortyFourMinusOneMinusOne,
                subtraction(subtraction(integer(44), integer(1)), integer(1)))
    /\ ParsesAs(FortyTwoMinusOnePlusOne,
                addition(subtraction(integer(42), integer(1)), integer(1)))

\* `44-1-1` has been parsed into (44-1)-1.
C28_Witness ==
  /\ ExprParsed
  /\ unit.expr = << "4", "4", "-", "1", "-", "1" >>
  /\ unit.st.ok
  /\ unit.st.v = subtraction(subtraction(integer(44), integer(1)), integer(1))

BindingParsed == unit.kind = "Binding" /\ unit.done

\* The tokens left out are `=` and `;` tokens, and one at least is left out.
MissingSimpleTokens ==
  /\ unit.start.omit # {}
  /\ \A i \in unit.start.omit : unit.start.tokens[i] \in { TokenEqual, TokenSemicolon }

\* What binding returns for the source with every token present.
CompleteBinding == binding(Span(Text(unit.start.tokens, unit.start.sep, {}, 1)), << >>)

\* The place in the source where the token left out at position i would
\* have started.
PlaceOf(i) ==
  [src |-> unit.expr,
   at |-> Len(Text(SubSeq(unit.start.tokens, 1, i - 1), unit.start.sep, unit.start.omit, 1))]

DiagnosticOf(i) ==
  Excepted(location_line(PlaceOf(i)), get_utf8_column(PlaceOf(i)), unit.start.tokens[i])

\* C26: a binding missing `=` or `;` tokens is parsed into the Binding of
\* the complete source, the whole source is consumed, and the error list
\* holds exactly one diagnostic for each missing token, at the place the
\* token would have been.
C26_OneDiagnosticPerMissingToken ==
  BindingParsed /\ MissingSimpleTokens =>
    /\ unit.st.ok
    /\ unit.st.v = CompleteBinding.v
    /\ Remaining(unit.st.tail) = 0
    /\ Len(unit.st.errs) = Cardinality(unit.start.omit)
    /\ \A i \in unit.start.omit :
         Cardinality({ k \in 1..Len(unit.st.errs) : unit.st.errs[k] = DiagnosticOf(i) }) = 1

\* `let a 1 ;`: the binding of `let a = 1 ;` and one diagnostic, at column 7.
C26_Witness ==
  /\ BindingParsed
  /\ unit.expr = << "l", "e", "t", " ", "a", " ", "1", " ", ";", " " >>
  /\ unit.st.ok
  /\ unit.st.v = Binding_new(<< "a" >>, integer(1))
  /\ unit.st.errs = << Excepted(1, 7, TokenEqual) >>

InputParsed == unit.kind = "Input" /\ unit.done /\ ~unit.st.panic

\* C27: parse_input fails exactly when the error list is not empty: with no
\* diagnostic recorded it succeeds and returns the Program the parser built,
\* and with a diagnostic recorded it fails.
C27_FailsIffDiagnostics ==
  InputParsed =>
    /\ ~unit.st.ok <=> unit.st.errs # << >>
    /\ unit.st.errs = << >> => unit.st.ok /\ unit.st.parsed

\* A source missing a `;`: the parser recovered and built the Program, one
\* diagnostic was recorded, and the pass failed.
C27_Witness ==
  /\ InputParsed
  /\ unit.start.omit # {}
  /\ unit.st.parsed
  /\ Len(unit.st.ast) = 1
  /\ Len(unit.st.errs) = 1
  /\ ~unit.st.ok

\* ------------------------------------------------------------------------
\* The offset of a decoding error
\* ------------------------------------------------------------------------
FromBytesFailed == phase = "decode" /\ decoded.kind = "Err"

\* The bytes from_bytes had consumed when it returned.
Consumed == Len(bytes) - Len(fb_input)

LabelCall(op) == unit.kind = "Labels" /\ unit.call.op = op

\* The entries of the context the call was made on are still there, and
\* those that had a position have kept it.
LabelsKept ==
  /\ Len(unit.labels) >= Len(unit.call.before)
  /\ \A i \in 1..Len(unit.call.before) :
       unit.call.before[i].some => unit.labels[i] = unit.call.before[i]

Allocated(label_id) == label_id < Len(unit.call.before)
PositionSet(label_id) == Allocated(label_id) /\ unit.call.before[label_id + 1].some

\* C31: label identifiers are handed out as 0, 1, 2, ... and no label is
\* ever removed; set_position sets the position of an allocated label that
\* has none, returns AlreadyDefined with the first position and changes
\* nothing when it has one, and returns UnknownLabel for an identifier not
\* allocated; resolve returns the position set, UnknownLabelPosition for
\* an allocated label without one and UnknownLabel otherwise.
C31_LabelContext ==
  unit.kind = "Labels" /\ unit.call.op # "None" =>
    /\ LabelsKept
    /\ LabelCall("new_anonymous") =>
         /\ unit.call.returned = Len(unit.call.before)
         /\ unit.labels = Append(unit.call.before, None)
    /\ LabelCall("set_position") =>
         /\ ~Allocated(unit.call.label_id) =>
              ~unit.call.ok /\ unit.call.err = UnknownLabel
              /\ unit.labels = unit.call.before
         /\ PositionSet(unit.call.label_id) =>
              /\ ~unit.call.ok
              /\ unit.call.err = AlreadyDefined(unit.call.before[unit.call.label_id + 1].v)
              /\ unit.labels = unit.call.before
         /\ Allocated(unit.call.label_id) /\ ~PositionSet(unit.call.label_id) =>
              /\ unit.call.ok
              /\ unit.labels =
                   [unit.call.before EXCEPT ![unit.call.label_id + 1] = Some(unit.call.pos)]
    /\ LabelCall("resolve") =>
         /\ unit.labels = unit.call.before
         /\ PositionSet(unit.call.label_id) =>
              /\ unit.call.ok
              /\ unit.call.returned = unit.call.before[unit.call.label_id + 1].v
         /\ Allocated(unit.call.label_id) /\ ~PositionSet(unit.call.label_id) =>
              ~unit.call.ok /\ unit.call.err = UnknownLabelPosition
         /\ ~Allocated(unit.call.label_id) =>
              ~unit.call.ok /\ unit.call.err = UnknownLabel

\* The third label was allocated as 2, label 0 was set at 42, and a second
\* set_position of label 0 at 101 has returned AlreadyDefined(42).
C31_Witness ==
  /\ LabelCall("set_position")
  /\ Len(unit.labels) = 3
  /\ unit.call.label_id = 0
  /\ unit.call.pos = 101
  /\ unit.call.err = AlreadyDefined(42)
  /\ unit.labels[1] = Some(42)

StackCall(op) == unit.kind = "Stack" /\ unit.call.op = op

TopBefore == unit.call.before[Len(unit.call.before)]

\* C40: the stack operations that fail leave the stack as it was:
\* pop_top_anonymous removes the top entry only when it is anonymous, returns
\* NotAnonymous on a named top and EmptyStack on an empty stack;
\* name_top_anonymous returns its error on a named top or an empty stack and
\* renames nothing.
C40_FailuresChangeNothing ==
  /\ StackCall("pop_top_anonymous") =>
       /\ unit.call.before = << >> =>
            ~unit.call.ok /\ unit.call.err = EmptyStack /\ unit.names = unit.call.before
       /\ unit.call.before # << >> /\ TopBefore # "" =>
            ~unit.call.ok /\ unit.call.err = NotAnonymous /\ unit.names = unit.call.before
       /\ unit.call.before # << >> /\ TopBefore = "" =>
            /\ unit.call.ok
            /\ unit.names = SubSeq(unit.call.before, 1, Len(unit.call.before) - 1)
  /\ StackCall("name_top_anonymous") =>
       /\ unit.call.before = << >> =>
            ~unit.call.ok /\ unit.call.err = NoTopVariable /\ unit.names = unit.call.before
       /\ unit.call.before # << >> /\ TopBefore # "" =>
            ~unit.call.ok /\ unit.call.err = NotAnonymous /\ unit.names = unit.call.before

\* pop_top_anonymous was called on a stack whose top is named and has
\* returned NotAnonymous.
C40_Witness ==
  /\ StackCall("pop_top_anonymous")
  /\ unit.call.before = << "foo" >>
  /\ unit.call.err = NotAnonymous

\* The names of the stack, bottom first, that are called name.
Carrying(names, name) == { i \in 1..Len(names) : names[i] = name }

\* The number of entries above the topmost entry called name.
Distance(names, name) ==
  Len(names) - (CHOOSE i \in Carrying(names, name) : \A j \in Carrying(names, name) : j <= i)

\* C35: an identifier bound on the compile-time stack is lowered to one
\* push_copy of the distance from the top to the topmost entry of that name,
\* anonymous entries counted, and resolve returns that distance; after
\* drop_subcontext(marker) the stack is what it was below the marker, so a
\* name is resolvable exactly when it was bound below the marker, at the
\* distance of that outer binding.
C35_IdentDepth ==
  /\ StackCall("lower") /\ Carrying(unit.call.before, unit.call.name) # {} =>
       /\ unit.call.ok
       /\ unit.call.collector =
            << Instruction_push_copy(Distance(unit.call.before, unit.call.name)) >>
       /\ unit.names = Append(unit.call.before, "")
  /\ StackCall("resolve") =>
       /\ unit.call.ok <=> Carrying(unit.call.before, unit.call.name) # {}
       /\ unit.call.ok => unit.call.returned = Distance(unit.call.before, unit.call.name)
  /\ StackCall("drop_subcontext") /\ unit.call.marker <= Len(unit.call.before) =>
       /\ unit.names = SubSeq(unit.call.before, 1, unit.call.marker)
       /\ \A name \in ContextNames :
            LET outer == Carrying(unit.call.before, name) \cap 1..unit.call.marker
                after == StackContext_resolve(unit.names, name)
            IN /\ after.some <=> outer # {}
               /\ after.some =>
                    after.v = unit.call.marker - (CHOOSE i \in outer : \A j \in outer : j <= i)

\* foo was bound, an anonymous temporary was pushed above it, and the
\* identifier foo has been lowered to push_copy 1.
C35_Witness ==
  /\ StackCall("lower")
  /\ unit.call.before = << "foo", "" >>
  /\ unit.call.name = "foo"
  /\ unit.call.collector = << Instruction_push_copy(1) >>

\* ------------------------------------------------------------------------
\* The code of an `if` at work
\* ------------------------------------------------------------------------
\* The compiled program is running and the body of main is an `if`.
IfRunning == pass = "Running" /\ MainBody.k = "If"

\* The index of the cond_jmp of that `if`: the code of the condition comes
\* first.
CondJmpAt == Len(ExprKind_lower(MainBody.condition, LoweringContext_new).collector)
ConsequentStart == CondJmpAt + 1
AlternativeStart == AsUsize(code[CondJmpAt + 1].null_addr)
\* The end of the `if`: the code of main's body is followed by f_stop.
IfEnd == Len(ExprKind_lower(MainBody, LoweringContext_new).collector)

ConditionValue == IF Eval(MainBody.condition, << >>) THEN 1 ELSE 0

BranchValue ==
  IF Eval(MainBody.condition, << >>) THEN Eval(MainBody.consequent, << >>)
  ELSE Eval(MainBody.alternative, << >>)

\* C32: the code of `if c { e1 } else { e2 }` is the code of c, a cond_jmp
\* whose positive arm is the consequent and whose null arm is the
\* alternative, the consequent, a goto to the end, the alternative. The
\* cond_jmp pops the value of c, 1 or 0, and goes to the consequent on 1 and
\* to the alternative on 0; the other branch is never entered; and the end
\* is reached with the value of the branch taken in place of the condition.
C32_OneBranchRuns ==
  IfRunning =>
    /\ code[CondJmpAt + 1].op = "CondJmp"
    /\ code[CondJmpAt + 1].positive_addr = U32(ConsequentStart)
    /\ ConsequentStart < AlternativeStart /\ AlternativeStart < IfEnd
    /\ code[AlternativeStart] = goto(U32(IfEnd))
    /\ Stepped /\ last.ip = CondJmpAt =>
         /\ last.stack = << Integer(ConditionValue) >>
         /\ stack = << >>
         /\ ip = IF ConditionValue = 1 THEN ConsequentStart ELSE AlternativeStart
    /\ outcome = Running /\ ConditionValue = 1 => ip \notin AlternativeStart..(IfEnd - 1)
    /\ outcome = Running /\ ConditionValue = 0 =>
         ip \notin ConsequentStart..(AlternativeStart - 1)
    /\ outcome = Running /\ ip = IfEnd => stack = << Integer(BranchValue) >>
    /\ outcome # Running => outcome = Finished(Integer(BranchValue))

\* The condition was false: the goto at the end of the consequent was never
\* run and the end has been reached from the alternative with its value.
C32_Witness ==
  /\ IfRunning
  /\ outcome = Running
  /\ ip = IfEnd
  /\ ConditionValue = 0
  /\ MainBody.alternative.k = "Bindings"
  /\ last.ip = IfEnd - 1
  /\ stack = << Integer(42) >>

\* The run has just executed a cond_jmp.
CondJmpRun == Stepped /\ last.instr.op = "CondJmp"

\* The value the cond_jmp popped.
Popped == last.stack[Len(last.stack)]

\* C33: in the run of the code lowered from a type-checked program, every
\* value a cond_jmp pops is the integer 0 or the integer 1, and the jump
\* goes to its null arm or to its positive arm, never to its negative arm
\* as such.
C33_ConditionIsZeroOrOne ==
  CondJmpRun =>
    /\ Popped \in { Integer(0), Integer(1) }
    /\ outcome = Running
    /\ ip = AsUsize(IF Popped = Integer(0) THEN last.instr.null_addr
                    ELSE last.instr.positive_addr)

\* A cond_jmp has popped the 0 of a name bound to false, below which the
\* shadowed integer binding still sits.
C33_Witness ==
  /\ CondJmpRun
  /\ Popped = Integer(0)
  /\ Len(last.stack) = 3
  /\ last.stack[1] = Integer(3)
  /\ ip = AsUsize(last.instr.null_addr)

\* ------------------------------------------------------------------------
\* The code of a let block at work
\* ------------------------------------------------------------------------
\* The run has just executed the pop_copy, or the pop, that closes a let
\* block; only let blocks lower to them in the code of main.
PopCopyRun == Stepped /\ last.instr.op = "PopCopy"
PopRun == Stepped /\ last.instr.op = "Pop"

DepthBefore == Len(last.stack)

\* The run has closed the let block that is the body of main.
MainLetClosed ==
  /\ PopRun
  /\ MainBody.k = "Bindings"
  /\ last.ip = Len(ExprKind_lower(MainBody, LoweringContext_new).collector) - 1

\* C34: the code of `let b1; ...; bn; body` ends with pop_copy n and
\* pop n-1.  With the stack holding the slots of before, b1..bn and the
\* value of body, pop_copy n pops that value and writes it over the slot of
\* b1, leaving every other slot as it was; pop n-1 then drops the slots of
\* b2..bn and nothing else: the slots of before are unchanged and one slot
\* with the value of body is added.
C34_LetFrame ==
  /\ PopCopyRun =>
       LET n == last.instr.arg IN
         /\ n >= 1
         /\ code[last.ip + 2] = pop(n - 1)
         /\ DepthBefore >= n + 1
         /\ outcome = Running
         /\ stack = [i \in 1..(DepthBefore - 1) |->
                       IF i = DepthBefore - n THEN last.stack[DepthBefore]
                       ELSE last.stack[i]]
  /\ PopRun =>
       LET k == last.instr.arg IN
         /\ code[last.ip] = pop_cpy(k + 1)
         /\ DepthBefore >= k + 1
         /\ outcome = Running
         /\ stack = SubSeq(last.stack, 1, DepthBefore - k)
  /\ MainLetClosed => stack = << Integer(Eval(MainBody, << >>)) >>

\* `let a = 40; let b = 2; a + b`: pop 1 has dropped the slot of b and the
\* stack holds 42 alone.
C34_Witness ==
  /\ MainLetClosed
  /\ last.instr = pop(1)
  /\ last.stack = << Integer(42), Integer(2) >>
  /\ stack = << Integer(42) >>

\* C36: a function other than main, entered by a call, runs its body, and
\* its ret returns to the instruction that follows the call, the value of the
\* body on top of the stack, without a runtime error.
Called == pass = "Calling"
CalledBody == program[unit.function].body
C36_CalledFunctionReturns ==
  Called =>
    /\ outcome.kind \notin {"Err", "Panic"}
    /\ (last.instr = ret(0, 0) =>
          /\ ip = unit.return
          /\ stack = << Integer(Eval(CalledBody, << >>)) >>)
    /\ (outcome.kind = "Finished" => outcome.value = Integer(Eval(CalledBody, << >>)))

\* The ret of the called function has run and failed: pop_copy 1 had written
\* the value of the body over the return address the call pushed.
C36_Witness ==
  /\ Called
  /\ last.instr = ret(0, 0)
  /\ last.stack = << Integer(41) >>
  /\ outcome.kind = "Err"

\* The functions called main, and the undefined identifiers the functions of
\* the program read, in the order of the source.
Mains == { i \in 1..Len(program) : program[i].name = "main" }
RECURSIVE UnboundOfFunctions(_)
UnboundOfFunctions(idx) ==
  IF idx > Len(program) THEN << >>
  ELSE UnboundInOrder(program[idx].body, {}) \o UnboundOfFunctions(idx + 1)

\* C37: the lowering succeeds only for a program that has exactly one
\* function called main; for a program without a main it records No main
\* function found first, lowers every function all the same, recording their
\* undefined identifiers, and the pass fails; a program with two functions
\* called main is not lowered with success.
C37_ExactlyOneMain ==
  /\ pass \in { "Lowered", "Resolved", "Running", "Calling", "LoweredWithoutMain" } =>
        Cardinality(Mains) = 1
  /\ pass \in { "LoweredWithoutMain", "LoweringErrorWithoutMain", "PanicWithoutMain" } =>
        LET st == Program_lower(program, LoweringContext_new) IN
        /\ pass = "LoweringErrorWithoutMain"
        /\ st.errs # << >> /\ Head(st.errs) = NoMainFunctionFound
        /\ lowered.errors = 1 + Len(UnboundOfFunctions(1))
        /\ lowered.instrs = << >>
        /\ [i \in 1..Len(st.named) |-> st.named[i].name]
             = [i \in 1..Len(program) |-> program[i].name]

\* A program with two functions called main was lowered with success.
C37_Witness ==
  /\ pass = "Lowered"
  /\ Cardinality(Mains) = 2
  /\ lowered.errors = 0

\* Every jump of the resolved code goes forward, no instruction is a call,
\* and the instruction pointer of a run grows at each step and stays an index
\* of the code.
ForwardOnly ==
  /\ pass \in { "Resolved", "Running" } =>
        \A i \in 1..Len(resolved) :
          /\ resolved[i].op # "Call"
          /\ \A target \in JumpTargets(resolved[i]) : target > i - 1
  /\ pass = "Running" => code = resolved /\ ip < Len(code)
  /\ (Stepped /\ outcome = Running) => last.ip < ip

\* C38: in the code lowered from a program every goto and cond_jmp jumps to an
\* index greater than its own and there is no call, so that a run of the code
\* moves the instruction pointer forward at each step, inside the code, and
\* ends, at f_stop or with a failure, after at most as many steps as the code
\* has instructions.
C38_ForwardJumpsTerminate ==
  /\ []ForwardOnly
  /\ (pass = "Running") ~> RunOver

\* The goto that ends the consequent of an if has jumped over the
\* alternative, and the run has then ended at f_stop.
C38_Witness ==
  /\ RunOver
  /\ outcome.kind = "Finished"
  /\ last.instr = f_stop
  /\ \E i \in 1..last.ip : code[i].op = "Goto" /\ AsUsize(code[i].arg) > i

\* C39: lowering a node on its own, let blocks holding one binding at least
\* and identifiers defined or not, never fails an unwrap: pop_top_anonymous
\* and name_top_anonymous find an anonymous top and set_position an allocated
\* label that holds no position yet; every label allocated is set once, and
\* the node, whether its lowering returns Ok or Err, leaves the stack it
\* started from with one more anonymous slot.
C39_NoAbort ==
  LoweredAlone =>
    /\ ~unit.st.panicked
    /\ unit.st.names = unit.start \o << "" >>
    /\ \A k \in 1..Len(unit.st.sets) :
         /\ unit.st.sets[k] < Len(unit.st.labels)
         /\ \A j \in 1..Len(unit.st.sets) : unit.st.sets[j] = unit.st.sets[k] => j = k
    /\ \A id \in 1..Len(unit.st.labels) :
         /\ unit.st.labels[id].some
         /\ \E k \in 1..Len(unit.st.sets) : unit.st.sets[k] = id - 1

\* `if b { a } else { 2 }` was lowered from the empty stack: b and a are
\* undefined, the node returns Err, its three labels are set and one
\* anonymous slot is left.
C39_Witness ==
  /\ LoweredAlone
  /\ unit.expr = if_(ident("b"), ident("a"), integer(2))
  /\ unit.start = << >>
  /\ ~unit.st.ok
  /\ Len(unit.st.errs) = 2
  /\ Len(unit.st.sets) = 3
  /\ unit.st.names = << "" >>

====
